---- MODULE Spec2Model ----
(***************************************************************************)
(* Model of the data-contract validator:                                   *)
(*   - retl_validator/core/models.py      ValidationIssue                  *)
(*   - retl_validator/core/validator.py   YAMLContractValidator            *)
(*   - retl_validator/extractors/dbt.py   DBTExtractor                     *)
(*   - retl_validator/extractors/fastapi.py FastAPIExtractor               *)
(*   - retl_validator/cli.py              CICDValidator, main              *)
(* Python values are modelled as follows: a name (table, column, category, *)
(* text) is a TLA+ string and None in its place is the string None; a     *)
(* formatted text (message, suggestion, expectation) is the non-empty      *)
(* sequence of its parts and None in its place is NoText; a list is a      *)
(* sequence; an insertion-ordered dict is a record [keys, val] with keys   *)
(* in insertion order; a call that may raise returns a record with the     *)
(* field ok and either val or exc.                                         *)
(***************************************************************************)
EXTENDS Integers, Sequences, FiniteSets, TLC

VARIABLES
    fastapi_yaml,   \* content of the file at self.fastapi_yaml_path
    dbt_yaml,       \* content of the file at self.dbt_yaml_path
    issues,         \* self.issues of the validator instance
    ret,            \* what the last validate_contracts call did
    calls,          \* number of validate_contracts calls on this instance
    dirty,          \* a file was rewritten since the last call
    prior,          \* result returned to the caller by an earlier instance
    project,        \* files of the DBT project and the compile environment
    cache,          \* ~/.retl-validator-cache/dbt: cache key -> entry
    xret,           \* what the last extract_schema call did
    xcalls,         \* number of extract_schema calls on this extractor
    xdirty,         \* the project changed since the last extract_schema call
    xobj,           \* the DBTExtractor object: none yet, constructed or raised
    written,        \* cache key -> the project's files when the entry was written
    given,          \* the arguments of a function applied on its own
    returned,       \* what that function returned or raised, once applied
    modules,        \* module name -> what importlib.import_module gives for it
    self_extracted_schemas,  \* self.extracted_schemas of the FastAPIExtractor
    fret,           \* what the last FastAPIExtractor.extract_schema call did
    fcalls,         \* number of extract_schema calls on the FastAPIExtractor
    dbt,            \* what the dbt executable does when it is run
    proc            \* the _compile_dbt_project call: where it is, what it raised

vars == <<fastapi_yaml, dbt_yaml, issues, ret, calls, dirty, prior,
          project, cache, xret, xcalls, xdirty, xobj, written, given, returned,
          modules, self_extracted_schemas, fret, fcalls, dbt, proc>>

validatorVars == <<fastapi_yaml, dbt_yaml, issues, ret, calls, dirty, prior>>
extractorVars == <<project, cache, xret, xcalls, xdirty, xobj, written>>
functionVars == <<given, returned>>
fastapiVars == <<modules, self_extracted_schemas, fret, fcalls>>
compileVars == <<dbt, proc>>

\* what a step of the validator leaves alone, and a step of the DBT extractor
outsideValidator == <<extractorVars, functionVars, fastapiVars, compileVars>>
outsideExtractor == <<validatorVars, functionVars, fastapiVars, compileVars>>

----------------------------------------------------------------------------
(* Bounds of the model *)

\* validate_contracts calls made on one validator instance
MaxCalls == 2

\* extract_schema calls made on one FastAPIExtractor
MaxFastapiCalls == 2

\* nodes of a manifest loaded on its own
MaxNodes == 3

\* words in the name of a model class analysed on its own
MaxWords == 2

\* characters of a select clause split on its own
MaxClauseLen == 5

\* source names a typo suggestion is looked up among
MaxCandidates == 4

\* table and column names that occur in the documents
TableNames == {"users", "orders"}
ColNames == {"id", "email"}

\* the order in which a document lists its tables and columns
TableOrder == <<"users", "orders">>
ColOrder == <<"id", "email">>

----------------------------------------------------------------------------
(* Python helpers *)

None == "None"
NoText == <<>>

UpperLetters == "ABCDEFGHIJKLMNOPQRSTUVWXYZ"
LowerLetters == "abcdefghijklmnopqrstuvwxyz"
DigitChars == "0123456789"

\* s[i - 1], the i-th character of s
CharAt(s, i) == SubSeq(s, i, i)

\* the position of the character c in s, 0 if it is not in s
IndexIn(c, s) ==
    IF \E i \in 1..Len(s) : CharAt(s, i) = c
    THEN CHOOSE i \in 1..Len(s) :
            CharAt(s, i) = c /\ \A j \in 1..(i - 1) : CharAt(s, j) # c
    ELSE 0

\* the characters of s, as a set
CharsOf(s) == {CharAt(s, i) : i \in 1..Len(s)}

\* the lower-case letter of each upper-case letter
LowerOf == [c \in CharsOf(UpperLetters) |-> CharAt(LowerLetters, IndexIn(c, UpperLetters))]

\* a str as the sequence of its characters
Chars(s) == [i \in 1..Len(s) |-> CharAt(s, i)]

\* str.lower() on one character
LowerChar(c) == IF c \in DOMAIN LowerOf THEN LowerOf[c] ELSE c

\* str.lower()
Lower(cs) == [i \in 1..Len(cs) |-> LowerChar(cs[i])]

Min(a, b) == IF a < b THEN a ELSE b
Abs(a) == IF a < 0 THEN 0 - a ELSE a

\* s[:n]
Prefix(cs, n) == SubSeq(cs, 1, Min(n, Len(cs)))

\* s[-n:]
Suffix(cs, n) == SubSeq(cs, Len(cs) - Min(n, Len(cs)) + 1, Len(cs))

\* s.startswith(p)
StartsWith(cs, p) == Len(p) <= Len(cs) /\ SubSeq(cs, 1, Len(p)) = p

\* s.endswith(p)
EndsWith(cs, p) ==
    Len(p) <= Len(cs) /\ SubSeq(cs, Len(cs) - Len(p) + 1, Len(cs)) = p

\* the elements of the sequence order that are in the set S, in that order
RECURSIVE Restrict(_, _)
Restrict(order, S) ==
    IF order = <<>> THEN <<>>
    ELSE IF Head(order) \in S THEN <<Head(order)>> \o Restrict(Tail(order), S)
    ELSE Restrict(Tail(order), S)

\* the orders in which a Python set of table names may be iterated
SetOrders == {<<"users", "orders">>, <<"orders", "users">>}

\* set of the elements of a sequence
Range(s) == {s[i] : i \in 1..Len(s)}

\* an insertion-ordered dict
EmptyDict == [keys |-> <<>>, val |-> <<>>]

\* d[k] = v
DictPut(d, k, v) ==
    [keys |-> IF k \in Range(d.keys) THEN d.keys ELSE Append(d.keys, k),
     val |-> [x \in Range(d.keys) \cup {k} |-> IF x = k THEN v ELSE d.val[x]]]

\* a call that returned v
Ok(v) == [ok |-> TRUE, val |-> v]

\* a call that raised the exception of class type with str(e) = msg
Raise(type, msg) == [ok |-> FALSE, exc |-> [type |-> type, msg |-> msg]]

----------------------------------------------------------------------------
(* Python strings, character by character *)

\* the classes [A-Z], [a-z] and [a-z0-9] of re
IsUpper(c) == c \in DOMAIN LowerOf
IsLower(c) == c \in CharsOf(LowerLetters)
IsLowerOrDigit(c) == IsLower(c) \/ c \in CharsOf(DigitChars)

\* str.lower() on a str, from position i on
RECURSIVE LowerFrom(_, _)
LowerFrom(s, i) ==
    IF i > Len(s) THEN ""
    ELSE (IF IsUpper(CharAt(s, i)) THEN LowerOf[CharAt(s, i)] ELSE CharAt(s, i))
         \o LowerFrom(s, i + 1)

\* str.lower() on a str
StrLower(s) == IF \A i \in 1..Len(s) : ~IsUpper(CharAt(s, i)) THEN s ELSE LowerFrom(s, 1)

\* the upper-case letter of each lower-case letter
UpperOf == [c \in CharsOf(LowerLetters) |-> CharAt(UpperLetters, IndexIn(c, LowerLetters))]

\* str.upper() on a str, from position i on
RECURSIVE UpperFrom(_, _)
UpperFrom(s, i) ==
    IF i > Len(s) THEN ""
    ELSE (IF IsLower(CharAt(s, i)) THEN UpperOf[CharAt(s, i)] ELSE CharAt(s, i))
         \o UpperFrom(s, i + 1)

\* str.upper() on a str
StrUpper(s) == IF \A i \in 1..Len(s) : ~IsLower(CharAt(s, i)) THEN s ELSE UpperFrom(s, 1)

\* s.endswith(suffix) on a str
StrEndsWith(s, suffix) ==
    Len(s) >= Len(suffix) /\ SubSeq(s, Len(s) - Len(suffix) + 1, Len(s)) = suffix

\* needle in s
Contains(s, needle) ==
    \E i \in 1..(Len(s) - Len(needle) + 1) :
        SubSeq(s, i, i + Len(needle) - 1) = needle

----------------------------------------------------------------------------
(* core/models.py *)

\* the members of the enum ValidationSeverity: their names and values
SeverityERROR == [name |-> "ERROR", value |-> "error"]
SeverityWARNING == [name |-> "WARNING", value |-> "warning"]
SeverityINFO == [name |-> "INFO", value |-> "info"]
ValidationSeverities == {SeverityERROR, SeverityWARNING, SeverityINFO}

\* ValidationSeverity(value): the member with this value, or ValueError
ValidationSeverity(value) ==
    IF \E m \in ValidationSeverities : m.value = value
    THEN Ok(CHOOSE m \in ValidationSeverities : m.value = value)
    ELSE Raise("ValueError", <<value, "is not a valid ValidationSeverity">>)

\* the fields of the dataclass ValidationIssue
IssueFields ==
    {"severity", "table", "column", "message", "category", "suggested_fix",
     "file_path", "fastapi_expectation", "dbt_output"}

\* the fields of the dataclass together with a field suggestion
IssueFieldsWithSuggestion == IssueFields \cup {"suggestion"}

\* the keyword arguments the generated __init__ accepts
IssueInitKeywords == IssueFields

\* the defaults of the dataclass fields
IssueDefaults ==
    [category |-> "Unknown", suggested_fix |-> NoText, file_path |-> NoText,
     fastapi_expectation |-> NoText, dbt_output |-> NoText]

\* ValidationIssue(**kw): the generated __init__ raises TypeError on a
\* keyword that is no field of the dataclass
ValidationIssue(kw) ==
    LET unexpected == DOMAIN kw \ IssueInitKeywords
    IN  IF unexpected # {}
        THEN Raise("TypeError",
                   <<"ValidationIssue.__init__() got an unexpected keyword argument",
                     CHOOSE k \in unexpected : TRUE>>)
        ELSE Ok([f \in IssueFields |->
                    IF f \in DOMAIN kw THEN kw[f] ELSE IssueDefaults[f]])

\* to_dict with the name of the severity in the place of its value
to_dict_with_severity_name(issue) ==
    [k \in IssueFields |-> IF k = "severity" THEN issue.severity.name ELSE issue[k]]

\* to_dict
to_dict(issue) ==
    [severity |-> issue.severity.value,
     category |-> issue.category,
     table |-> issue.table,
     column |-> issue.column,
     message |-> issue.message,
     suggested_fix |-> issue.suggested_fix,
     file_path |-> issue.file_path,
     fastapi_expectation |-> issue.fastapi_expectation,
     dbt_output |-> issue.dbt_output]

\* data.get(key, default)
Get(data, key, default) == IF key \in DOMAIN data THEN data[key] ELSE default

\* lines 39-49 once ValidationSeverity(...) has returned or raised
FromDictWith(severity, data) ==
    IF ~severity.ok THEN severity
    ELSE ValidationIssue(
            [severity |-> severity.val,
             table |-> Get(data, "table", "Unknown"),
             column |-> Get(data, "column", None),
             message |-> Get(data, "message", <<"">>),
             category |-> Get(data, "category", "Unknown"),
             suggested_fix |-> Get(data, "suggested_fix", NoText),
             file_path |-> Get(data, "file_path", NoText),
             fastapi_expectation |-> Get(data, "fastapi_expectation", NoText),
             dbt_output |-> Get(data, "dbt_output", NoText)])

\* from_dict
from_dict(data) ==
    FromDictWith(ValidationSeverity(Get(data, "severity", "error")), data)

----------------------------------------------------------------------------
(* The YAML documents *)

\* one entry of a table's columns list; has_name is FALSE for an entry
\* without the key name
ColumnEntry(n, t, r) ==
    [has_name |-> TRUE, name |-> n, type |-> t, required |-> r,
     description |-> ""]

NamelessEntry ==
    [has_name |-> FALSE, name |-> None, type |-> "varchar", required |-> TRUE,
     description |-> ""]

\* the lists of column names, in the order of the document, each name with
\* an attribute drawn from attrs
NameLists(attrs) ==
    UNION { LET ns == Restrict(ColOrder, S)
            IN  {[i \in 1..Len(ns) |-> [n |-> ns[i], a |-> f[ns[i]]]] :
                    f \in [S -> attrs]}
            : S \in SUBSET ColNames }

\* columns lists of the target document: required and optional columns
TargetColumnLists ==
    {[i \in 1..Len(m) |-> ColumnEntry(m[i].n, "varchar", m[i].a)] :
        m \in NameLists(BOOLEAN)}
    \cup {<<NamelessEntry>>}

\* columns lists of the source document: the declared types vary
SourceColumnLists ==
    {[i \in 1..Len(m) |-> ColumnEntry(m[i].n, m[i].a, TRUE)] :
        m \in NameLists({"varchar", "integer"})}
    \cup {<<NamelessEntry>>}

\* a file that does not exist, an empty document (safe_load returns None),
\* a document that is not YAML
MissingFile == [kind |-> "missing", tables |-> <<>>]
NullDocument == [kind |-> "null", tables |-> <<>>]
InvalidYaml == [kind |-> "invalid", tables |-> <<>>]

\* a mapping with the key tables; every declared table has the columns cols
TablesDocument(S, cols) == [kind |-> "map", tables |-> [t \in S |-> cols]]

Documents(lists) ==
    {MissingFile, NullDocument, InvalidYaml}
    \cup {TablesDocument(S, cols) : S \in SUBSET TableNames, cols \in lists}

FastapiDocuments == Documents(TargetColumnLists)
DbtDocuments == Documents(SourceColumnLists)

----------------------------------------------------------------------------
(* core/validator.py: loading *)

\* the inner loop of _load_fastapi_schema over one table's columns
RECURSIVE FastapiColumns(_, _)
FastapiColumns(cols, acc) ==
    IF cols = <<>> THEN Ok(acc)
    ELSE LET column == Head(cols)
         IN  IF ~column.has_name THEN Raise("KeyError", <<"'name'">>)
             ELSE FastapiColumns(Tail(cols),
                    [columns |-> DictPut(acc.columns, column.name,
                                    [name |-> column.name,
                                     sql_type |-> column.type,
                                     required |-> column.required,
                                     description |-> column.description]),
                     required_columns |->
                        IF column.required
                        THEN Append(acc.required_columns, column.name)
                        ELSE acc.required_columns,
                     optional_columns |->
                        IF column.required
                        THEN acc.optional_columns
                        ELSE Append(acc.optional_columns, column.name)])

\* the outer loop of _load_fastapi_schema over the tables of the document;
\* c is what the inner loop made of the first table
RECURSIVE FastapiTables(_, _, _), FastapiTablesPut(_, _, _, _)
FastapiTablesPut(names, tables, acc, c) ==
    IF ~c.ok THEN c
    ELSE FastapiTables(Tail(names), tables,
            DictPut(acc, Head(names),
                [table_name |-> Head(names),
                 required_columns |-> c.val.required_columns,
                 optional_columns |-> c.val.optional_columns,
                 columns |-> c.val.columns,
                 source_model |-> "Unknown"]))

FastapiTables(names, tables, acc) ==
    IF names = <<>> THEN Ok(acc)
    ELSE FastapiTablesPut(names, tables, acc,
            FastapiColumns(tables[Head(names)],
                [columns |-> EmptyDict, required_columns |-> <<>>,
                 optional_columns |-> <<>>]))

_load_fastapi_schema(doc) ==
    CASE doc.kind = "missing" ->
            Raise("FileNotFoundError", <<"FastAPI YAML file not found">>)
      [] doc.kind = "invalid" -> Raise("YAMLError", <<"could not parse">>)
      [] doc.kind = "null" ->
            Raise("AttributeError", <<"'NoneType' object has no attribute 'get'">>)
      [] OTHER ->
            FastapiTables(Restrict(TableOrder, DOMAIN doc.tables), doc.tables,
                          EmptyDict)

\* the inner loop of _load_dbt_schema over one table's columns
RECURSIVE DbtColumns(_, _)
DbtColumns(cols, acc) ==
    IF cols = <<>> THEN Ok(acc)
    ELSE LET column == Head(cols)
         IN  IF ~column.has_name THEN Raise("KeyError", <<"'name'">>)
             ELSE DbtColumns(Tail(cols),
                    DictPut(acc, column.name,
                        [name |-> column.name, data_type |-> column.type,
                         description |-> column.description]))

\* the outer loop of _load_dbt_schema over the tables of the document;
\* c is what the inner loop made of the first table
RECURSIVE DbtTables(_, _, _), DbtTablesPut(_, _, _, _)
DbtTablesPut(names, tables, acc, c) ==
    IF ~c.ok THEN c
    ELSE DbtTables(Tail(names), tables,
            DictPut(acc, Head(names),
                [name |-> Head(names), alias |-> Head(names),
                 materialization |-> "unknown", columns |-> c.val,
                 source_model |-> "Unknown"]))

DbtTables(names, tables, acc) ==
    IF names = <<>> THEN Ok(acc)
    ELSE DbtTablesPut(names, tables, acc,
                      DbtColumns(tables[Head(names)], EmptyDict))

\* a variant that takes a missing file for a document without tables
_load_dbt_schema_or_empty(doc) ==
    CASE doc.kind = "missing" -> Ok(EmptyDict)
      [] doc.kind = "invalid" -> Raise("YAMLError", <<"could not parse">>)
      [] doc.kind = "null" ->
            Raise("AttributeError", <<"'NoneType' object has no attribute 'get'">>)
      [] OTHER ->
            DbtTables(Restrict(TableOrder, DOMAIN doc.tables), doc.tables,
                      EmptyDict)

_load_dbt_schema(doc) ==
    CASE doc.kind = "missing" ->
            Raise("FileNotFoundError", <<"DBT YAML file not found">>)
      [] doc.kind = "invalid" -> Raise("YAMLError", <<"could not parse">>)
      [] doc.kind = "null" ->
            Raise("AttributeError", <<"'NoneType' object has no attribute 'get'">>)
      [] OTHER ->
            DbtTables(Restrict(TableOrder, DOMAIN doc.tables), doc.tables,
                      EmptyDict)

----------------------------------------------------------------------------
(* core/validator.py: the diff *)

\* a step of the diff that ended normally, with self.issues = iss
Done(iss) == [ok |-> TRUE, issues |-> iss]

\* a step of the diff that raised exc, with self.issues = iss at that point
Failed(exc, iss) == [ok |-> FALSE, exc |-> exc, issues |-> iss]

\* the loop of _find_similar_table_names over the candidates
RECURSIVE SimilarTableNames(_, _, _)
SimilarTableNames(target_lower, candidates, similar) ==
    IF candidates = <<>> THEN similar
    ELSE LET candidate == Head(candidates)
             candidate_lower == Lower(Chars(candidate))
             hit == /\ Abs(Len(target_lower) - Len(candidate_lower)) <= 2
                    /\ \/ StartsWith(target_lower, Prefix(candidate_lower, 3))
                       \/ StartsWith(candidate_lower, Prefix(target_lower, 3))
                       \/ EndsWith(target_lower, Suffix(candidate_lower, 3))
                       \/ EndsWith(candidate_lower, Suffix(target_lower, 3))
         IN  SimilarTableNames(target_lower, Tail(candidates),
                IF hit THEN Append(similar, candidate) ELSE similar)

_find_similar_table_names(target, candidates) ==
    Prefix(SimilarTableNames(Lower(Chars(target)), candidates, <<>>), 3)

\* the loop of _find_similar_column_names over the candidates
RECURSIVE SimilarColumnNames(_, _, _)
SimilarColumnNames(target_lower, candidates, similar) ==
    IF candidates = <<>> THEN similar
    ELSE LET candidate == Head(candidates)
             candidate_lower == Lower(Chars(candidate))
             hit == /\ Abs(Len(target_lower) - Len(candidate_lower)) <= 2
                    /\ \/ StartsWith(target_lower, Prefix(candidate_lower, 2))
                       \/ StartsWith(candidate_lower, Prefix(target_lower, 2))
         IN  SimilarColumnNames(target_lower, Tail(candidates),
                IF hit THEN Append(similar, candidate) ELSE similar)

_find_similar_column_names(target, candidates) ==
    Prefix(SimilarColumnNames(Lower(Chars(target)), candidates, <<>>), 3)

\* self.issues.append(ValidationIssue(...)): issue is what the constructor did
AppendIssue(iss, issue) ==
    IF issue.ok THEN Done(Append(iss, issue.val)) ELSE Failed(issue.exc, iss)

\* f"Did you mean: {', '.join(similar)}?" if similar else otherwise
Suggestion(similar, otherwise) ==
    IF similar # <<>> THEN <<"Did you mean">> \o similar ELSE <<otherwise>>

\* the loop of _validate_schema_compatibility over missing_in_dbt, iterated in
\* the order missing; candidates is dbt_table_names in its iteration order;
\* r is what the body of the loop did for the first table
RECURSIVE MissingTables(_, _, _, _), MissingTablesNext(_, _, _, _)
MissingTablesNext(missing, candidates, fastapi_schemas, r) ==
    IF ~r.ok THEN r
    ELSE MissingTables(Tail(missing), candidates, fastapi_schemas, r.issues)

MissingTables(missing, candidates, fastapi_schemas, iss) ==
    IF missing = <<>> THEN Done(iss)
    ELSE MissingTablesNext(missing, candidates, fastapi_schemas,
            AppendIssue(iss, ValidationIssue(
                [severity |-> SeverityERROR,
                 category |-> "CRITICAL: Missing Required Table",
                 table |-> Head(missing),
                 column |-> None,
                 message |->
                    <<"FastAPI model(s)">>
                    \o SelectSeq(fastapi_schemas.keys,
                          LAMBDA m : fastapi_schemas.val[m].table_name = Head(missing))
                    \o <<"REQUIRE table", Head(missing),
                         "but DBT doesn't provide it">>,
                 fastapi_expectation |-> <<"Table", Head(missing)>>,
                 dbt_output |-> <<"TABLE NOT FOUND">>,
                 suggestion |->
                    Suggestion(_find_similar_table_names(Head(missing), candidates),
                               "Create this table in your DBT models")])))

\* missing_order and names_order: the iteration orders of the two sets
_validate_schema_compatibility(iss, fastapi_schemas, dbt_schemas, missing_order, names_order) ==
    LET fastapi_table_names == Range(fastapi_schemas.keys)
        dbt_table_names == Range(dbt_schemas.keys)
        missing_in_dbt == fastapi_table_names \ dbt_table_names
    IN  MissingTables(Restrict(missing_order, missing_in_dbt),
                      Restrict(names_order, dbt_table_names),
                      fastapi_schemas, iss)

\* the issue for a required column that the DBT model lacks
MissingRequiredColumn(table_name, col_name, col_info, dbt_columns) ==
    ValidationIssue(
        [severity |-> SeverityERROR,
         category |-> "CRITICAL: Missing Required Column",
         table |-> table_name,
         column |-> col_name,
         message |-> <<"FastAPI REQUIRES column", col_name,
                       "but DBT model doesn't provide it">>,
         fastapi_expectation |-> <<col_name, col_info.sql_type, "REQUIRED">>,
         dbt_output |-> <<"MISSING">>,
         suggestion |->
            Suggestion(_find_similar_column_names(col_name, dbt_columns.keys),
                       "Add this column to your DBT model")])

\* the issue for an optional column that the DBT model lacks
MissingOptionalColumn(table_name, col_name, col_info) ==
    ValidationIssue(
        [severity |-> SeverityWARNING,
         category |-> "Missing Optional Column",
         table |-> table_name,
         column |-> col_name,
         message |-> <<"FastAPI expects optional column", col_name,
                       "but DBT model doesn't provide it">>,
         fastapi_expectation |-> <<col_name, col_info.sql_type, "optional">>,
         dbt_output |-> <<"Missing">>,
         suggestion |-> <<"Consider adding this column if needed">>])

\* a variant that also compares the declared types
ColumnProvidedWithSameType(col_name, col_info, dbt_columns) ==
    /\ col_name \in Range(dbt_columns.keys)
    /\ dbt_columns.val[col_name].data_type = col_info.sql_type

\* col_name in dbt_columns
ColumnProvided(col_name, col_info, dbt_columns) ==
    col_name \in Range(dbt_columns.keys)

\* the inner loop of _validate_column_compatibility over fastapi_columns;
\* r is what the body of the loop did for the first column
RECURSIVE MissingColumns(_, _, _, _, _), MissingColumnsNext(_, _, _, _, _)
MissingColumnsNext(col_names, fastapi_columns, dbt_columns, table_name, r) ==
    IF ~r.ok THEN r
    ELSE MissingColumns(Tail(col_names), fastapi_columns, dbt_columns,
                        table_name, r.issues)

MissingColumns(col_names, fastapi_columns, dbt_columns, table_name, iss) ==
    IF col_names = <<>> THEN Done(iss)
    ELSE MissingColumnsNext(col_names, fastapi_columns, dbt_columns, table_name,
            IF ColumnProvided(Head(col_names),
                              fastapi_columns.val[Head(col_names)], dbt_columns)
            THEN Done(iss)
            ELSE IF fastapi_columns.val[Head(col_names)].required
            THEN AppendIssue(iss,
                    MissingRequiredColumn(table_name, Head(col_names),
                        fastapi_columns.val[Head(col_names)], dbt_columns))
            ELSE AppendIssue(iss,
                    MissingOptionalColumn(table_name, Head(col_names),
                        fastapi_columns.val[Head(col_names)])))

\* the outer loop of _validate_column_compatibility over fastapi_schemas;
\* r is what the body of the loop did for the first table
RECURSIVE ColumnTables(_, _, _, _), ColumnTablesNext(_, _, _, _)
ColumnTablesNext(table_names, fastapi_schemas, dbt_schemas, r) ==
    IF ~r.ok THEN r
    ELSE ColumnTables(Tail(table_names), fastapi_schemas, dbt_schemas, r.issues)

ColumnTables(table_names, fastapi_schemas, dbt_schemas, iss) ==
    IF table_names = <<>> THEN Done(iss)
    ELSE ColumnTablesNext(table_names, fastapi_schemas, dbt_schemas,
            IF Head(table_names) \notin Range(dbt_schemas.keys)
            THEN Done(iss)
            ELSE MissingColumns(
                    fastapi_schemas.val[Head(table_names)].columns.keys,
                    fastapi_schemas.val[Head(table_names)].columns,
                    dbt_schemas.val[Head(table_names)].columns,
                    Head(table_names), iss))

_validate_column_compatibility(iss, fastapi_schemas, dbt_schemas) ==
    ColumnTables(fastapi_schemas.keys, fastapi_schemas, dbt_schemas, iss)

----------------------------------------------------------------------------
(* core/validator.py: validate_contracts *)

\* the classes of the exceptions raised in the model; all derive from Exception
ExceptionClasses ==
    {"FileNotFoundError", "YAMLError", "AttributeError", "KeyError", "TypeError",
     "OSError"}

\* a handler that catches OSError only
CaughtByExceptOSError(type) == type \in {"FileNotFoundError", "OSError"}

\* except Exception as e
CaughtByExceptException(type) == type \in ExceptionClasses

\* the issue appended on the early return for a target without tables
NothingToValidateIssue ==
    ValidationIssue(
        [severity |-> SeverityWARNING,
         category |-> "FastAPI",
         table |-> "N/A",
         column |-> None,
         message |-> <<"No FastAPI tables found in YAML - nothing to validate">>]).val

\* the issue appended by the except clause
ExceptionIssue(exc) ==
    ValidationIssue(
        [severity |-> SeverityERROR,
         category |-> "Validation",
         table |-> "N/A",
         column |-> None,
         message |-> <<"Validation failed with exception">> \o exc.msg]).val

\* critical_issues of validate_contracts
CriticalIssues(iss) == SelectSeq(iss, LAMBDA i : i.severity = SeverityERROR)

\* len(critical_issues) == 0
SuccessOf(critical_issues) == Len(critical_issues) = 0

\* the end of the try block: c is what _validate_column_compatibility did
CountCritical(c) ==
    IF ~c.ok THEN c
    ELSE [ok |-> TRUE, success |-> SuccessOf(CriticalIssues(c.issues)),
          path |-> "diffed", issues |-> c.issues]

\* step 3 of the try block: s is what _validate_schema_compatibility did
CheckColumns(s, fastapi_schemas, dbt_schemas) ==
    IF ~s.ok THEN s
    ELSE CountCritical(
            _validate_column_compatibility(s.issues, fastapi_schemas, dbt_schemas))

\* step 3 of the try block: d is what _load_dbt_schema did
CheckTables(iss, fastapi_schemas, d, missing_order, names_order) ==
    IF ~d.ok THEN Failed(d.exc, iss)
    ELSE CheckColumns(
            _validate_schema_compatibility(iss, fastapi_schemas, d.val,
                                           missing_order, names_order),
            fastapi_schemas, d.val)

\* the try block after step 1: f is what _load_fastapi_schema did
LoadDbt(iss, f, dbt_doc, missing_order, names_order) ==
    IF ~f.ok THEN Failed(f.exc, iss)
    ELSE IF f.val.keys = <<>>
    THEN [ok |-> TRUE, success |-> TRUE, path |-> "no_tables",
          issues |-> Append(iss, NothingToValidateIssue)]
    ELSE CheckTables(iss, f.val, _load_dbt_schema(dbt_doc),
                     missing_order, names_order)

\* the try block: returns [ok, success, path, issues] or [ok, exc, issues]
TryBlock(iss, fastapi_doc, dbt_doc, missing_order, names_order) ==
    LoadDbt(iss, _load_fastapi_schema(fastapi_doc), dbt_doc,
            missing_order, names_order)

\* the except clause; t is what the try block did.  raised says that an
\* exception left the method (success is then not a returned value)
ExceptClause(t) ==
    IF t.ok
    THEN [raised |-> FALSE, success |-> t.success, path |-> t.path,
          issues |-> t.issues]
    ELSE IF CaughtByExceptException(t.exc.type)
    THEN [raised |-> FALSE, success |-> FALSE, path |-> "except",
          issues |-> Append(t.issues, ExceptionIssue(t.exc))]
    ELSE [raised |-> TRUE, success |-> FALSE, path |-> "raised",
          issues |-> t.issues]

\* validate_contracts on an instance with self.issues = iss
validate_contracts(iss, fastapi_doc, dbt_doc, missing_order, names_order) ==
    ExceptClause(TryBlock(iss, fastapi_doc, dbt_doc, missing_order, names_order))

has_blocking_issues(iss) ==
    \E i \in 1..Len(iss) : iss[i].severity = SeverityERROR

----------------------------------------------------------------------------
(* extractors/dbt.py: the files of a DBT project                           *)
(*                                                                         *)
(* A SQL file is its text; the regular expressions of the code are        *)
(* followed character by character, over texts of ASCII letters, digits,   *)
(* punctuation, blanks, tabs and newlines.  A file under models/ is named  *)
(* by its stem.  File ages are kept as "younger than an hour or not".      *)
(* hashlib.md5 is taken to be injective: a digest is the pair of what was  *)
(* fed to the hasher.                                                      *)
(***************************************************************************)

\* extract_schema calls made on one extractor
MaxExtracts == 2

\* config["project_path"]
ProjectPath == "."

\* contents of the SQL files of the model
SelectId == "select id from t"
SelectIdEmail == "select id, email from t"
SqlTexts == {SelectId, SelectIdEmail}

\* texts that name a column twice, that select nothing
SelectIdTwice == "select id, ID from t"
NoSelect == "create table t"

\* in the place of a text: the bytes of the file are not UTF-8 and f.read()
\* raises UnicodeDecodeError
Undecodable == "<not UTF-8>"

\* skip_directories
SkipDirectories == {"analysis", "tests", "macros", "snapshots"}

\* sql_file.parts of the file with this stem
SqlFileParts(stem) == <<"models", stem>>

\* any(part in skip_directories for part in sql_file.parts)
_should_skip_file(parts) ==
    \E i \in 1..Len(parts) : parts[i] \in SkipDirectories

\* the classes \s and \w of re, over the characters of the model's texts
IsSpace(c) == c \in {" ", "\n", "\t"}
IsWord(c) == IsUpper(c) \/ IsLowerOrDigit(c) \/ c = "_"

\* s[i - 1:].startswith(t)
StartsAt(s, i, t) ==
    i >= 1 /\ i + Len(t) - 1 <= Len(s) /\ SubSeq(s, i, i + Len(t) - 1) = t

\* the least of a set of positions, 0 for the empty set
FirstOf(S) == IF S = {} THEN 0 ELSE CHOOSE j \in S : \A k \in S : j <= k

\* the greatest of a set of positions, 0 for the empty set
LastOf(S) == IF S = {} THEN 0 ELSE CHOOSE j \in S : \A k \in S : j >= k

\* s.find(needle, i - 1) + 1: the first position at or after i where needle
\* starts, 0 if there is none
FindFrom(s, needle, i) ==
    FirstOf({j \in i..(Len(s) - Len(needle) + 1) : StartsAt(s, j, needle)})

\* the first position at or after i that holds no whitespace
SpaceRunEnd(s, i) ==
    IF i > Len(s) THEN i
    ELSE FirstOf({j \in i..(Len(s) + 1) : j > Len(s) \/ ~IsSpace(CharAt(s, j))})

\* the last position at or before i that holds no whitespace
SpaceRunStart(s, i) ==
    IF i < 1 THEN i
    ELSE LastOf({j \in 0..i : j = 0 \/ ~IsSpace(CharAt(s, j))})

\* str.strip() on a str
Strip(s) == SubSeq(s, SpaceRunEnd(s, 1), SpaceRunStart(s, Len(s)))

\* the end of the match of \{\{[^}]+\}\} that starts at i, 0 if there is none
JinjaEnd(s, i) ==
    IF /\ StartsAt(s, i, "{{")
       /\ FindFrom(s, "}", i + 2) > i + 2
       /\ StartsAt(s, FindFrom(s, "}", i + 2), "}}")
    THEN FindFrom(s, "}", i + 2) + 1
    ELSE 0

\* the start of the first match of \{\{[^}]+\}\} at or after i, 0 if there is none
NextJinja(s, i) == FirstOf({j \in i..Len(s) : JinjaEnd(s, j) # 0})

\* re.sub(r"\{\{[^}]+\}\}", "", s), from position i on: the text up to the
\* next match is kept, the match is dropped
RECURSIVE SubJinja(_, _)
SubJinja(s, i) ==
    IF NextJinja(s, i) = 0 THEN SubSeq(s, i, Len(s))
    ELSE SubSeq(s, i, NextJinja(s, i) - 1)
            \o SubJinja(s, JinjaEnd(s, NextJinja(s, i)) + 1)

\* the start of the first match of --.*?\n at or after i, 0 if there is none:
\* a -- with a newline somewhere after it
NextLineComment(s, i) ==
    FirstOf({j \in i..Len(s) : StartsAt(s, j, "--") /\ FindFrom(s, "\n", j + 2) # 0})

\* re.sub(r"--.*?\n", "\n", s), from position i on
RECURSIVE SubLineComments(_, _)
SubLineComments(s, i) ==
    IF NextLineComment(s, i) = 0 THEN SubSeq(s, i, Len(s))
    ELSE SubSeq(s, i, NextLineComment(s, i) - 1) \o "\n"
            \o SubLineComments(s, FindFrom(s, "\n", NextLineComment(s, i) + 2) + 1)

\* the start of the first match of /\*[\s\S]*?\*/ at or after i, 0 if there
\* is none
NextBlockComment(s, i) ==
    FirstOf({j \in i..Len(s) : StartsAt(s, j, "/*") /\ FindFrom(s, "*/", j + 2) # 0})

\* re.sub(r"/\*[\s\S]*?\*/", "", s), from position i on
RECURSIVE SubBlockComments(_, _)
SubBlockComments(s, i) ==
    IF NextBlockComment(s, i) = 0 THEN SubSeq(s, i, Len(s))
    ELSE SubSeq(s, i, NextBlockComment(s, i) - 1)
            \o SubBlockComments(s, FindFrom(s, "*/", NextBlockComment(s, i) + 2) + 2)

\* lines 290-292: cleaned
Cleaned(sql_content) ==
    SubBlockComments(SubLineComments(SubJinja(sql_content, 1), 1), 1)

\* \s+from matches at e, whatever the case of from
SpacesThenFrom(s, e) ==
    /\ e <= Len(s)
    /\ IsSpace(CharAt(s, e))
    /\ SpaceRunEnd(s, e) + 3 <= Len(s)
    /\ StrLower(SubSeq(s, SpaceRunEnd(s, e), SpaceRunEnd(s, e) + 3)) = "from"

\* the first position at or after e where \s+from matches, 0 if there is none
FirstSpacesThenFrom(s, e) ==
    FirstOf({j \in e..Len(s) : SpacesThenFrom(s, j)})

\* the match of select\s+(.*?)\s+from that starts at i: the whitespace after
\* select runs up to k; the lazy group starts at k and ends before the first
\* \s+from, and when there is none the whitespace gives one character back
\* and the group is empty
SelectMatchFrom(s, i, k) ==
    IF FirstSpacesThenFrom(s, k) # 0
    THEN [found |-> TRUE, group |-> SubSeq(s, k, FirstSpacesThenFrom(s, k) - 1),
          end |-> SpaceRunEnd(s, FirstSpacesThenFrom(s, k)) + 3]
    ELSE IF k - (i + 6) >= 2 /\ SpacesThenFrom(s, k - 1)
    THEN [found |-> TRUE, group |-> "", end |-> k + 3]
    ELSE [found |-> FALSE]

SelectMatchAt(s, i) ==
    IF /\ i + 6 <= Len(s)
       /\ StrLower(SubSeq(s, i, i + 5)) = "select"
       /\ IsSpace(CharAt(s, i + 6))
    THEN SelectMatchFrom(s, i, SpaceRunEnd(s, i + 6))
    ELSE [found |-> FALSE]

\* the start of the first match at or after i, 0 if there is none
NextSelect(s, i) == FirstOf({j \in i..Len(s) : SelectMatchAt(s, j).found})

\* group(1) of every match re.finditer gives, from position i on
RECURSIVE SelectPatterns(_, _)
SelectPatterns(s, i) ==
    IF NextSelect(s, i) = 0 THEN <<>>
    ELSE <<SelectMatchAt(s, NextSelect(s, i)).group>>
            \o SelectPatterns(s, SelectMatchAt(s, NextSelect(s, i)).end + 1)

\* the group of the last match, stripped
LastSelect(select_patterns) ==
    IF select_patterns = <<>> THEN [found |-> FALSE, text |-> ""]
    ELSE [found |-> TRUE, text |-> Strip(select_patterns[Len(select_patterns)])]

\* the last SELECT ... FROM of the text; found is FALSE for None
_find_final_select(sql_content) == LastSelect(SelectPatterns(Cleaned(sql_content), 1))

\* current_column.strip(), appended when it is not empty
Stripped(current_column) ==
    IF Strip(current_column) # "" THEN <<Strip(current_column)>> ELSE <<>>

\* the columns from position i on, current_column and paren_depth so far
RECURSIVE SplitFrom(_, _, _, _)
SplitFrom(s, i, current_column, paren_depth) ==
    IF i > Len(s) THEN Stripped(current_column)
    ELSE IF CharAt(s, i) = "(" THEN SplitFrom(s, i + 1, current_column \o "(", paren_depth + 1)
    ELSE IF CharAt(s, i) = ")" THEN SplitFrom(s, i + 1, current_column \o ")", paren_depth - 1)
    ELSE IF CharAt(s, i) = "," /\ paren_depth = 0
    THEN Stripped(current_column) \o SplitFrom(s, i + 1, "", paren_depth)
    ELSE SplitFrom(s, i + 1, current_column \o CharAt(s, i), paren_depth)

\* the columns from position i on when every comma splits
RECURSIVE SplitAtEveryComma(_, _, _)
SplitAtEveryComma(s, i, current_column) ==
    IF i > Len(s) THEN Stripped(current_column)
    ELSE IF CharAt(s, i) = ","
    THEN Stripped(current_column) \o SplitAtEveryComma(s, i + 1, "")
    ELSE SplitAtEveryComma(s, i + 1, current_column \o CharAt(s, i))

\* _split_columns without paren_depth
_split_columns_at_every_comma(select_clause) == SplitAtEveryComma(select_clause, 1, "")

\* split the select clause at the commas outside parentheses
_split_columns(select_clause) == SplitFrom(select_clause, 1, "", 0)

\* the start of the run \w+ that ends at the end of s, Len(s) + 1 if s does
\* not end in a word character
RECURSIVE WordRunStart(_, _)
WordRunStart(s, i) ==
    IF i >= 1 /\ IsWord(CharAt(s, i)) THEN WordRunStart(s, i - 1) ELSE i + 1

\* re.search(r"\s+as\s+(\w+)$", s, re.IGNORECASE), the word run starting at p
\* and the whitespace before it at q
AsMatch(s, p, q) ==
    /\ p <= Len(s)
    /\ q < p - 1
    /\ q >= 3
    /\ StrLower(SubSeq(s, q - 1, q)) = "as"
    /\ IsSpace(CharAt(s, q - 2))

\* re.search(r"(\w+)\.(\w+)$", s), the word run starting at p
TablePrefixMatch(s, p) ==
    /\ p <= Len(s)
    /\ p >= 3
    /\ CharAt(s, p - 1) = "."
    /\ IsWord(CharAt(s, p - 2))

\* the first position at or after i that holds whitespace, 0 if none does
RECURSIVE FindSpace(_, _)
FindSpace(s, i) ==
    IF i > Len(s) THEN 0
    ELSE IF IsSpace(CharAt(s, i)) THEN i
    ELSE FindSpace(s, i + 1)

\* col_text.split(), from position i on
RECURSIVE SplitWords(_, _)
SplitWords(s, i) ==
    IF SpaceRunEnd(s, i) > Len(s) THEN <<>>
    ELSE IF FindSpace(s, SpaceRunEnd(s, i)) = 0
    THEN <<SubSeq(s, SpaceRunEnd(s, i), Len(s))>>
    ELSE <<SubSeq(s, SpaceRunEnd(s, i), FindSpace(s, SpaceRunEnd(s, i)) - 1)>>
         \o SplitWords(s, FindSpace(s, SpaceRunEnd(s, i)))

\* line 377
CaseKeywords == <<"CASE", "WHEN", "THEN", "ELSE", "END">>

\* lines 372-384: the last part of an expression, or computed_column
LastPartOrComputed(col_text, parts) ==
    IF /\ Len(parts) > 1
       /\ ~\E k \in 1..Len(CaseKeywords) : Contains(StrUpper(col_text), CaseKeywords[k])
       /\ ~Contains(parts[Len(parts)], "(")
    THEN StrLower(parts[Len(parts)])
    ELSE "computed_column"

\* lines 356-384 on the stripped text, its last word run starting at p
ColumnNameOf(col_text, p) ==
    IF AsMatch(col_text, p, SpaceRunStart(col_text, p - 1)) THEN StrLower(SubSeq(col_text, p, Len(col_text)))
    ELSE IF TablePrefixMatch(col_text, p) THEN StrLower(SubSeq(col_text, p, Len(col_text)))
    ELSE IF p = 1 /\ col_text # "" THEN StrLower(col_text)
    ELSE LastPartOrComputed(col_text, SplitWords(col_text, 1))

\* the name of a column
_extract_column_name(col_text) ==
    ColumnNameOf(Strip(col_text), WordRunStart(Strip(col_text), Len(Strip(col_text))))

\* any(word in text for word in words)
ContainsAny(text, words) == \E k \in 1..Len(words) : Contains(text, words[k])

\* lines 392-407 on expression.upper(): the type a function or a keyword
\* gives, None when there is none
TypeByFunction(expression_upper) ==
    IF ContainsAny(expression_upper, <<"COUNT", "SUM", "ROW_NUMBER">>) THEN "integer"
    ELSE IF Contains(expression_upper, "AVG") THEN "float"
    ELSE IF ContainsAny(expression_upper, <<"CONCAT", "UPPER", "LOWER", "TRIM">>) THEN "varchar"
    ELSE IF Contains(expression_upper, "TIMESTAMP") \/ Contains(expression_upper, "CURRENT_TIMESTAMP")
    THEN "timestamp"
    ELSE IF Contains(expression_upper, "DATE") THEN "date"
    ELSE IF ContainsAny(expression_upper, <<"TRUE", "FALSE", "BOOLEAN">>) THEN "boolean"
    ELSE None

\* lines 410-420 with re.IGNORECASE, on the expression in lower case
TypeByPattern(lowered) ==
    IF StrEndsWith(lowered, "_id") \/ lowered = "id" THEN "varchar"
    ELSE IF \/ StrEndsWith(lowered, "_at")
            \/ StrEndsWith(lowered, "_time")
            \/ Contains(lowered, "timestamp")
    THEN "timestamp"
    ELSE IF ContainsAny(lowered, <<"count", "total", "sum">>) THEN "integer"
    ELSE IF ContainsAny(lowered, <<"rate", "ratio", "percentage", "avg">>) THEN "float"
    ELSE "varchar"

\* the type of an expression, from the calls in it and then from its name
_infer_data_type(expression) ==
    IF TypeByFunction(StrUpper(expression)) # None THEN TypeByFunction(StrUpper(expression))
    ELSE TypeByPattern(StrLower(expression))

\* line 348
DescriptionOf(col_text) ==
    "Generated from: " \o
    (IF Len(col_text) > 50 THEN SubSeq(col_text, 1, 50) \o "..." ELSE col_text)

\* column_info of one column of the select clause
_parse_column(col_text) ==
    [name |-> _extract_column_name(Strip(col_text)),
     type |-> _infer_data_type(Strip(col_text)),
     required |-> TRUE,
     description |-> DescriptionOf(Strip(col_text))]

\* the columns of column_parts from position i on
RECURSIVE ParsedColumns(_, _)
ParsedColumns(column_parts, i) ==
    IF i > Len(column_parts) THEN <<>>
    ELSE IF Strip(column_parts[i]) # "" /\ Strip(column_parts[i]) # "*"
    THEN <<_parse_column(Strip(column_parts[i]))>> \o ParsedColumns(column_parts, i + 1)
    ELSE ParsedColumns(column_parts, i + 1)

\* the columns of the final select of one SQL file
_extract_columns_from_sql(sql_content) ==
    IF ~_find_final_select(sql_content).found \/ _find_final_select(sql_content).text = ""
    THEN <<>>
    ELSE ParsedColumns(_split_columns(_find_final_select(sql_content).text), 1)

\* _extract_columns_from_sql of each text a file of the model may hold,
\* computed once
ExtractedColumns ==
    [sql_content \in SqlTexts \cup {SelectIdTwice, NoSelect} |->
        _extract_columns_from_sql(sql_content)]

\* model_columns[model_name] of a file whose columns were read
SqlSchema(stem, columns) ==
    [columns |-> columns, sql_file |-> SqlFileParts(stem), source_model |-> stem]

\* the loop of _extract_from_sql_files over sql_files from position i on
RECURSIVE SqlFilesFrom(_, _, _, _)
SqlFilesFrom(sql, sql_files, i, model_columns) ==
    IF i > Len(sql_files) THEN model_columns
    ELSE IF _should_skip_file(SqlFileParts(sql_files[i]))
    THEN SqlFilesFrom(sql, sql_files, i + 1, model_columns)
    ELSE IF sql[sql_files[i]] = Undecodable
    THEN SqlFilesFrom(sql, sql_files, i + 1, model_columns)
    ELSE IF ExtractedColumns[sql[sql_files[i]]] = <<>>
    THEN SqlFilesFrom(sql, sql_files, i + 1, model_columns)
    ELSE SqlFilesFrom(sql, sql_files, i + 1,
             DictPut(model_columns, sql_files[i],
                     SqlSchema(sql_files[i], ExtractedColumns[sql[sql_files[i]]])))

\* the schemas inferred from the SQL files; rglob lists the files in the
\* order rglob_order
_extract_from_sql_files(sql, rglob_order) ==
    SqlFilesFrom(sql, Restrict(rglob_order, DOMAIN sql), 1, EmptyDict)

----------------------------------------------------------------------------
(* extractors/dbt.py: target/manifest.json *)

\* a manifest that json.load rejects
InvalidJson == [json |-> FALSE]

\* node["columns"] when it is a mapping, its items in the order of the file,
\* and when it is something else: a list, a string, null
MappingOf(items) == [mapping |-> TRUE, items |-> items]
NotAMapping == [mapping |-> FALSE, items |-> <<>>]

\* an item of node["columns"]: col_name and a mapping col_info, and an item
\* whose col_info is not a mapping
ManifestColumn(col_name, data_type) ==
    [name |-> col_name, info |-> [mapping |-> TRUE, data_type |-> data_type]]
ColumnWithoutInfo(col_name) ==
    [name |-> col_name, info |-> [mapping |-> FALSE, data_type |-> None]]

\* a node of the manifest
ManifestNode(resource_type, name, alias, columns) ==
    [resource_type |-> resource_type, name |-> name, alias |-> alias,
     columns |-> columns]

\* a manifest with a model that declares the column id and with a test
CompiledManifest ==
    [json |-> TRUE,
     nodes |-> <<ManifestNode("model", "users", None,
                              MappingOf(<<ManifestColumn("id", "integer")>>)),
                 ManifestNode("test", "not_null_users_id", None,
                              MappingOf(<<>>))>>]

ManifestDocs == {InvalidJson, CompiledManifest}

\* no file at manifest_path
NoManifest == [exists |-> FALSE]

\* the file at manifest_path: its content and whether it is under an hour old
ManifestFile(doc, recent) == [exists |-> TRUE, recent |-> recent, doc |-> doc]

ManifestFiles ==
    {NoManifest} \cup {ManifestFile(d, r) : d \in ManifestDocs, r \in BOOLEAN}

\* the columns list built from the items of node["columns"], from position
\* i on; col_info.get raises when col_info is not a mapping
RECURSIVE ManifestColumns(_, _, _)
ManifestColumns(cols, i, columns) ==
    IF i > Len(cols) THEN Ok(columns)
    ELSE IF ~cols[i].info.mapping
    THEN Raise("AttributeError", <<"object has no attribute 'get'">>)
    ELSE ManifestColumns(cols, i + 1,
            Append(columns, [name |-> cols[i].name,
                             type |-> cols[i].info.data_type,
                             required |-> TRUE,
                             description |-> ""]))

\* the loop of _load_manifest_schemas over the nodes from position i on;
\* node.get("columns", {}).items() raises when columns is not a mapping, and
\* c is what the inner loop made of the i-th node's columns
RECURSIVE ManifestNodesFrom(_, _, _), ManifestNodePut(_, _, _, _)
ManifestNodePut(nodes, i, extracted_schemas, c) ==
    IF ~c.ok THEN c
    ELSE ManifestNodesFrom(nodes, i + 1,
             DictPut(extracted_schemas,
                     IF nodes[i].alias # None THEN nodes[i].alias
                     ELSE nodes[i].name,
                     [columns |-> c.val,
                      description |-> "",
                      materialization |-> "view",
                      source_model |-> nodes[i].name]))

ManifestNodesFrom(nodes, i, extracted_schemas) ==
    IF i > Len(nodes) THEN Ok(extracted_schemas)
    ELSE IF nodes[i].resource_type # "model"
    THEN ManifestNodesFrom(nodes, i + 1, extracted_schemas)
    ELSE IF ~nodes[i].columns.mapping
    THEN Raise("AttributeError", <<"object has no attribute 'items'">>)
    ELSE ManifestNodePut(nodes, i, extracted_schemas,
                         ManifestColumns(nodes[i].columns.items, 1, <<>>))

\* the schemas declared by the manifest
_load_manifest_schemas(doc) ==
    IF ~doc.json THEN Raise("JSONDecodeError", <<"Expecting value">>)
    ELSE ManifestNodesFrom(doc.nodes, 1, EmptyDict)

\* what the two subprocess.run calls of _compile_dbt_project may do
CompileOutcomes == {"no dbt", "timeout", "failed", "ok", "ok, no manifest"}

\* _compile_dbt_project
_compile_dbt_project(outcome) ==
    CASE outcome = "no dbt" ->
           Raise("RuntimeError", <<"DBT command not found">>)
      [] outcome = "timeout" ->
           Raise("RuntimeError", <<"DBT compilation timed out (>2 minutes)">>)
      [] outcome = "failed" ->
           Raise("RuntimeError", <<"DBT compilation failed">>)
      [] OTHER -> Ok(None)

\* timeout=120 of the dbt compile run, in seconds
CompileTimeout == 120

\* a process that never exits takes Never
Never == -1

\* e.stderr of a failed dbt compile: a profile problem, a connection
\* problem, another problem
StderrTexts ==
    {"Could not find profile named 'dev' in profiles.yml",
     "Database Error: Connection refused",
     "Compilation Error in model users",
     ""}

\* lines 196-200: the hint appended to error_msg
Hint(stderr) ==
    IF Contains(stderr, "profiles.yml")
    THEN <<"Hint: Make sure your DBT profiles.yml is configured correctly">>
    ELSE IF Contains(stderr, "Connection")
    THEN <<"Hint: Database connection failed. Check your credentials and network">>
    ELSE <<>>

\* lines 195-201: the error of a dbt compile that exited non-zero
CompilationFailed(stderr) ==
    Raise("RuntimeError", <<"DBT compilation failed: ", stderr>> \o Hint(stderr))

\* subprocess.run with no timeout argument, and with timeout=seconds
NoTimeout == [armed |-> FALSE, seconds |-> 0]
Timeout(seconds) == [armed |-> TRUE, seconds |-> seconds]

\* the child exits before subprocess.run gives up on it
ExitsInTime(child, timeout) ==
    /\ child.takes # Never
    /\ timeout.armed => child.takes <= timeout.seconds

\* the file at manifest_path once dbt compile has run
ManifestAfterCompile(manifest, outcome) ==
    IF outcome = "ok" THEN ManifestFile(CompiledManifest, TRUE) ELSE manifest

\* a step of _extract_from_manifest: its result, the file at manifest_path
\* after it and what the compilation did
ManifestStep(res, manifest, compiled) ==
    [res |-> res, manifest |-> manifest, compiled |-> compiled]

\* _extract_from_manifest after _compile_dbt_project returned compiled
AfterCompile(compiled, manifest, outcome) ==
    IF ~compiled.ok THEN ManifestStep(compiled, manifest, outcome)
    ELSE IF ~manifest.exists
    THEN ManifestStep(Raise("FileNotFoundError",
                            <<"DBT compilation failed to generate manifest">>),
                      manifest, outcome)
    ELSE ManifestStep(_load_manifest_schemas(manifest.doc), manifest, outcome)

\* _extract_from_manifest
_extract_from_manifest(manifest, outcome) ==
    IF manifest.exists /\ manifest.recent
    THEN ManifestStep(_load_manifest_schemas(manifest.doc), manifest, "none")
    ELSE AfterCompile(_compile_dbt_project(outcome),
                      ManifestAfterCompile(manifest, outcome), outcome)

----------------------------------------------------------------------------
(* extractors/dbt.py: the cache directory *)

\* the contents of the files of sql_files from position i on, one after the
\* other
RECURSIVE HashedContent(_, _, _)
HashedContent(sql, sql_files, i) ==
    IF i > Len(sql_files) THEN ""
    ELSE sql[sql_files[i]] \o HashedContent(sql, sql_files, i + 1)

\* sorted(rglob("*.sql")) over the stems of the model
SortedOrder == <<"orders", "users">>

\* the digest of the SQL files in sorted order and of the project path
_get_cache_key(sql) ==
    <<HashedContent(sql, Restrict(SortedOrder, DOMAIN sql), 1), ProjectPath>>

\* a cache file json.load rejects
CorruptEntry == [json |-> FALSE]

\* the cache file _cache_schema writes
JsonEntry(schema, fresh) == [json |-> TRUE, schema |-> schema, fresh |-> fresh]

\* cache_file.unlink(missing_ok=True)
Unlink(cch, cache_key) == [k \in DOMAIN cch \ {cache_key} |-> cch[k]]

\* what open and json.dump of _cache_schema may do
WriteOutcomes == {"written", "denied", "truncated"}

\* a step of _get_cached_schema: found is FALSE for None
CachedStep(found, schema, cch) ==
    [found |-> found, schema |-> schema, cache |-> cch]

\* _get_cached_schema
_get_cached_schema(cch, cache_key) ==
    IF cache_key \notin DOMAIN cch THEN CachedStep(FALSE, EmptyDict, cch)
    ELSE IF ~cch[cache_key].json
    THEN CachedStep(FALSE, EmptyDict, Unlink(cch, cache_key))
    ELSE CachedStep(TRUE, cch[cache_key].schema, cch)

\* _is_cache_valid
_is_cache_valid(cch, cache_key) ==
    cache_key \in DOMAIN cch /\ cch[cache_key].json /\ cch[cache_key].fresh

\* the cache directory with the file of cache_key replaced
CachePut(cch, cache_key, entry) ==
    [k \in DOMAIN cch \cup {cache_key} |->
        IF k = cache_key THEN entry ELSE cch[k]]

\* _cache_schema
_cache_schema(cch, cache_key, schema, write) ==
    CASE write = "written" -> CachePut(cch, cache_key, JsonEntry(schema, TRUE))
      [] write = "truncated" -> CachePut(cch, cache_key, CorruptEntry)
      [] OTHER -> cch

----------------------------------------------------------------------------
(* extractors/dbt.py: extract_schema *)

\* extract_schema takes every RuntimeError of _compile_dbt_project alike
\* (line 59): its calls draw one failing outcome
CompileResults == CompileOutcomes \ {"no dbt", "timeout"}

\* what one call may meet: the outcome of the compilation, the outcome of
\* the cache write and the order in which rglob lists the files
Environments ==
    [compile : CompileResults, write : WriteOutcomes, rglob : SetOrders]

\* extract_schema leaves with the schemas along path, the manifest and the
\* cache directory as the call left them
Extracted(path, schemas, manifest, cch, compiled) ==
    [path |-> path, schemas |-> schemas, manifest |-> manifest,
     cache |-> cch, compiled |-> compiled]

\* lines 62-71: the SQL files are parsed and the result is cached
SqlFallback(schema, cache_key, manifest, cch, compiled, env) ==
    Extracted("sql", schema, manifest,
              _cache_schema(cch, cache_key, schema, env.write), compiled)

\* lines 54-60 once _extract_from_manifest has returned or raised
ManifestTried(step, cache_key, sql, cch, env) ==
    IF step.res.ok
    THEN Extracted("manifest", step.res.val, step.manifest,
                   _cache_schema(cch, cache_key, step.res.val, env.write),
                   step.compiled)
    ELSE SqlFallback(_extract_from_sql_files(sql, env.rglob), cache_key,
                     step.manifest, cch, step.compiled, env)

\* lines 49-51 once _get_cached_schema has returned
CacheChecked(cached, cache_key, proj, env) ==
    IF /\ cached.found
       /\ cached.schema.keys # <<>>
       /\ _is_cache_valid(cached.cache, cache_key)
    THEN Extracted("cache", cached.schema, proj.manifest, cached.cache, "none")
    ELSE ManifestTried(_extract_from_manifest(proj.manifest, env.compile),
                       cache_key, proj.sql, cached.cache, env)

\* lines 45-47
FullMode(cache_key, proj, cch, env) ==
    CacheChecked(_get_cached_schema(cch, cache_key), cache_key, proj, env)

\* extract_schema without lines 38-40: fast_mode is not looked at
extract_schema_always_full(fast_mode, proj, cch, env) ==
    FullMode(_get_cache_key(proj.sql), proj, cch, env)

\* extract_schema(config) with config["fast_mode"] = fast_mode
extract_schema(fast_mode, proj, cch, env) ==
    IF fast_mode
    THEN Extracted("fast", _extract_from_sql_files(proj.sql, env.rglob),
                   proj.manifest, cch, "none")
    ELSE FullMode(_get_cache_key(proj.sql), proj, cch, env)

\* the SQL files a project may hold under models/
SqlFiles == UNION {[S -> SqlTexts] : S \in SUBSET TableNames}

\* the cache directory right after mkdir
EmptyCache == [k \in {} |-> CorruptEntry]

\* written while the cache directory is empty
NothingWritten == [k \in {} |-> NoManifest]

\* xret before the first call
NoExtract ==
    [path |-> "none", fast |-> FALSE, schemas |-> EmptyDict,
     compiled |-> "none", had |-> NoManifest]

----------------------------------------------------------------------------
(* extractors/fastapi.py: the analysis of one field                        *)
(*                                                                         *)
(* A type hint is what the code reads of it: str(type_hint), __origin__    *)
(* (absent when has_origin is FALSE), __args__ (absent when has_args is    *)
(* FALSE) and whether it is type(None); name tells which type it is.  The  *)
(* texts are those of Python 3.11.                                         *)
(***************************************************************************)

\* a class used as a type hint
ClassHint(name, text) ==
    [name |-> name, str |-> text, has_origin |-> FALSE, origin |-> "none",
     has_args |-> FALSE, args |-> <<>>, is_none |-> FALSE]

\* type(None)
NoneTypeHint ==
    [name |-> "NoneType", str |-> "<class 'NoneType'>", has_origin |-> FALSE,
     origin |-> "none", has_args |-> FALSE, args |-> <<>>, is_none |-> TRUE]

\* a subscripted generic of typing: Optional[X], Union[...], List[X], Dict[K, V]
GenericHint(text, origin, args) ==
    [name |-> origin, str |-> text, has_origin |-> TRUE, origin |-> origin,
     has_args |-> TRUE, args |-> args, is_none |-> FALSE]

\* X | None, a types.UnionType: it has __args__ and no __origin__
UnionTypeHint(text, args) ==
    [name |-> "UnionType", str |-> text, has_origin |-> FALSE,
     origin |-> "none", has_args |-> TRUE, args |-> args, is_none |-> FALSE]

\* type_hints.get(field_name) of a field without annotation
NoHint ==
    [name |-> "None", str |-> "None", has_origin |-> FALSE, origin |-> "none",
     has_args |-> FALSE, args |-> <<>>, is_none |-> FALSE]

HintStr == ClassHint("str", "<class 'str'>")
HintInt == ClassHint("int", "<class 'int'>")
HintFloat == ClassHint("float", "<class 'float'>")
HintBool == ClassHint("bool", "<class 'bool'>")
HintDatetime == ClassHint("datetime", "<class 'datetime.datetime'>")
HintDate == ClassHint("date", "<class 'datetime.date'>")
HintDict == ClassHint("dict", "<class 'dict'>")
HintList == ClassHint("list", "<class 'list'>")
HintDecimal == ClassHint("Decimal", "<class 'decimal.Decimal'>")
HintAny == ClassHint("Any", "typing.Any")
HintOptionalStr ==
    GenericHint("typing.Optional[str]", "Union", <<HintStr, NoneTypeHint>>)
HintOptionalInt ==
    GenericHint("typing.Optional[int]", "Union", <<HintInt, NoneTypeHint>>)
HintOptionalDate ==
    GenericHint("typing.Optional[datetime.date]", "Union",
                <<HintDate, NoneTypeHint>>)
HintUnionIntStrNone ==
    GenericHint("typing.Union[int, str, NoneType]", "Union",
                <<HintInt, HintStr, NoneTypeHint>>)
HintIntOrNone == UnionTypeHint("int | None", <<HintInt, NoneTypeHint>>)
HintListStr == GenericHint("typing.List[str]", "list", <<HintStr>>)
HintListFloat == GenericHint("typing.List[float]", "list", <<HintFloat>>)
HintDictStrAny ==
    GenericHint("typing.Dict[str, typing.Any]", "dict", <<HintStr, HintAny>>)
HintListOptionalInt ==
    GenericHint("typing.List[typing.Optional[int]]", "list",
                <<HintOptionalInt>>)

\* the type hints of the model
TypeHints ==
    {HintStr, HintInt, HintFloat, HintBool, HintDatetime, HintDate, HintDict,
     HintList, HintDecimal, NoHint, HintOptionalStr, HintOptionalInt,
     HintOptionalDate, HintUnionIntStrNone, HintIntOrNone, HintListStr,
     HintListFloat, HintDictStrAny, HintListOptionalInt}

\* field_info.default: no default, Field(...) or a value
Defaults == {"PydanticUndefined", "Ellipsis", "value"}

\* a FieldInfo, as far as the code reads it: max_length is 0 for None
FieldInfos ==
    [default : Defaults, default_factory : {None, "list"}, max_length : {0, 50}]

\* type(None) in type_hint.__args__
NoneInArgs(type_hint) ==
    \E i \in 1..Len(type_hint.args) : type_hint.args[i].is_none

\* _is_field_required
_is_field_required(field_info, type_hint) ==
    IF \/ Contains(type_hint.str, "typing.Optional")
       \/ Contains(type_hint.str, "Optional[")
    THEN FALSE
    ELSE IF /\ type_hint.has_origin
            /\ type_hint.origin = "Union"
            /\ NoneInArgs(type_hint)
    THEN FALSE
    ELSE IF field_info.default = "Ellipsis" THEN TRUE
    ELSE IF field_info.default_factory # None THEN FALSE
    ELSE TRUE

\* the basic type mappings of _python_to_sql_type on the lowered text
BasicSqlType(type_str) ==
    IF Contains(type_str, "str") THEN "varchar"
    ELSE IF Contains(type_str, "int") THEN "integer"
    ELSE IF Contains(type_str, "float") THEN "float"
    ELSE IF Contains(type_str, "bool") THEN "boolean"
    ELSE IF Contains(type_str, "datetime") THEN "timestamp"
    ELSE IF Contains(type_str, "date") THEN "date"
    ELSE IF Contains(type_str, "dict") \/ Contains(type_str, "json") THEN "json"
    ELSE IF Contains(type_str, "list") THEN "json"
    ELSE "varchar"

\* the position of the first of __args__ that is not type(None), 0 if none
FirstNotNone(args) ==
    IF \E i \in 1..Len(args) : ~args[i].is_none
    THEN CHOOSE i \in 1..Len(args) :
            ~args[i].is_none /\ \A j \in 1..(i - 1) : args[j].is_none
    ELSE 0

\* _python_to_sql_type
RECURSIVE _python_to_sql_type(_)
_python_to_sql_type(python_type) ==
    IF /\ \/ Contains(StrLower(python_type.str), "optional")
          \/ Contains(StrLower(python_type.str), "union")
       /\ python_type.has_args
       /\ FirstNotNone(python_type.args) # 0
    THEN _python_to_sql_type(python_type.args[FirstNotNone(python_type.args)])
    ELSE BasicSqlType(StrLower(python_type.str))

\* column_info without the field constraints
ColumnInfo(field_name, is_required, sql_type) ==
    [name |-> field_name, required |-> is_required, type |-> sql_type,
     nullable |-> ~is_required]

\* column_info["max_length"] = field_info.max_length
WithMaxLength(column_info, max_length) ==
    [k \in DOMAIN column_info \cup {"max_length"} |->
        IF k = "max_length" THEN max_length ELSE column_info[k]]

\* _analyze_field
_analyze_field(field_name, field_info, type_hint) ==
    IF field_info.max_length # 0
    THEN WithMaxLength(ColumnInfo(field_name,
                                  _is_field_required(field_info, type_hint),
                                  _python_to_sql_type(type_hint)),
                       field_info.max_length)
    ELSE ColumnInfo(field_name, _is_field_required(field_info, type_hint),
                    _python_to_sql_type(type_hint))

----------------------------------------------------------------------------
(* extractors/fastapi.py: the analysis of one model class                  *)
(*                                                                         *)
(* A member of a module is what the code reads of it: its name, whether it *)
(* is a class derived from BaseModel, whether it has __annotations__,      *)
(* Config.table_name (None when it has none), model_fields in declaration  *)
(* order, and whether get_type_hints resolves its annotations (a forward   *)
(* reference to a name that does not exist makes it raise NameError).      *)
(***************************************************************************)

\* the end of the run [a-z]+ of s that starts at i
RECURSIVE LowerRunEnd(_, _)
LowerRunEnd(s, i) ==
    IF i + 1 <= Len(s) /\ IsLower(CharAt(s, i + 1))
    THEN LowerRunEnd(s, i + 1)
    ELSE i

\* re.sub("(.)([A-Z][a-z]+)", r"\1_\2", s), from position i on
RECURSIVE SubWordStart(_, _)
SubWordStart(s, i) ==
    IF i > Len(s) THEN ""
    ELSE IF /\ i + 2 <= Len(s)
            /\ IsUpper(CharAt(s, i + 1))
            /\ IsLower(CharAt(s, i + 2))
    THEN CharAt(s, i) \o "_" \o SubSeq(s, i + 1, LowerRunEnd(s, i + 2))
             \o SubWordStart(s, LowerRunEnd(s, i + 2) + 1)
    ELSE CharAt(s, i) \o SubWordStart(s, i + 1)

\* re.sub("([a-z0-9])([A-Z])", r"\1_\2", s), from position i on
RECURSIVE SubLowerUpper(_, _)
SubLowerUpper(s, i) ==
    IF i > Len(s) THEN ""
    ELSE IF /\ i + 1 <= Len(s)
            /\ IsLowerOrDigit(CharAt(s, i))
            /\ IsUpper(CharAt(s, i + 1))
    THEN CharAt(s, i) \o "_" \o CharAt(s, i + 1) \o SubLowerUpper(s, i + 2)
    ELSE CharAt(s, i) \o SubLowerUpper(s, i + 1)

\* lines 105-106: CamelCase to snake_case
SnakeCase(class_name) == StrLower(SubLowerUpper(SubWordStart(class_name, 1), 1))

\* lines 109-110 without the _data exception
Pluralize_unless_s(table_name) ==
    IF ~StrEndsWith(table_name, "s") THEN table_name \o "s" ELSE table_name

\* lines 109-110: pluralize
Pluralize(table_name) ==
    IF ~StrEndsWith(table_name, "s") /\ ~StrEndsWith(table_name, "_data")
    THEN table_name \o "s"
    ELSE table_name

\* _infer_table_name: None or the table name
_infer_table_name(model_class) ==
    IF model_class.config_table_name # None THEN model_class.config_table_name
    ELSE IF \/ Contains(model_class.name, "Base")
            \/ Contains(model_class.name, "Abstract")
    THEN None
    ELSE Pluralize(SnakeCase(model_class.name))

\* the loop of lines 75-84 over model_fields from the i-th field on
RECURSIVE AnalyzedFields(_, _, _)
AnalyzedFields(model_class, i, schema_info) ==
    IF i > Len(model_class.model_fields) THEN schema_info
    ELSE AnalyzedFields(model_class, i + 1,
            [schema_info EXCEPT
                !.columns = Append(@, _analyze_field(model_class.model_fields[i].field_name, model_class.model_fields[i].field_info, model_class.model_fields[i].type_hint)),
                !.required_columns =
                    IF _is_field_required(model_class.model_fields[i].field_info, model_class.model_fields[i].type_hint)
                    THEN Append(@, model_class.model_fields[i].field_name) ELSE @,
                !.optional_columns =
                    IF _is_field_required(model_class.model_fields[i].field_info, model_class.model_fields[i].type_hint)
                    THEN @ ELSE Append(@, model_class.model_fields[i].field_name)])

\* schema_info of lines 63-69
NewSchemaInfo(table_name, model_class) ==
    [table_name |-> table_name, model_class |-> model_class.name,
     columns |-> <<>>, required_columns |-> <<>>, optional_columns |-> <<>>]

\* None in the place of a schema_info
NoSchemaInfo == [table_name |-> None]

\* _analyze_model: None, schema_info or what get_type_hints raises
_analyze_model(model_class) ==
    IF ~model_class.has_annotations THEN Ok(NoSchemaInfo)
    ELSE IF _infer_table_name(model_class) \in {None, ""} THEN Ok(NoSchemaInfo)
    ELSE IF ~model_class.hints_resolve
    THEN Raise("NameError", <<"name is not defined">>)
    ELSE Ok(AnalyzedFields(model_class, 1,
                NewSchemaInfo(_infer_table_name(model_class), model_class)))

----------------------------------------------------------------------------
(* extractors/fastapi.py: extract_schema                                   *)
(*                                                                         *)
(* A module is the list inspect.getmembers gives, sorted by name; a module *)
(* name maps to its module or to importable = FALSE when import_module     *)
(* raises ImportError.  A call gives what it returned or raised and        *)
(* self.extracted_schemas as it leaves it.                                 *)
(***************************************************************************)

\* a field of a model class
ModelField(field_name, field_info, type_hint) ==
    [field_name |-> field_name, field_info |-> field_info, type_hint |-> type_hint]

NoDefault == [default |-> "PydanticUndefined", default_factory |-> None, max_length |-> 0]

\* a Pydantic model class
ModelClass(name, config_table_name, hints_resolve, model_fields) ==
    [name |-> name, is_model |-> TRUE, has_annotations |-> TRUE,
     config_table_name |-> config_table_name, hints_resolve |-> hints_resolve,
     model_fields |-> model_fields]

\* a member that is not a Pydantic model: a function, a constant, BaseModel
OtherMember(name) ==
    [name |-> name, is_model |-> FALSE, has_annotations |-> FALSE,
     config_table_name |-> None, hints_resolve |-> TRUE, model_fields |-> <<>>]

ClassUser ==
    ModelClass("User", None, TRUE,
               <<ModelField("id", NoDefault, HintInt),
                 ModelField("email", NoDefault, HintOptionalStr)>>)
ClassUserProfile ==
    ModelClass("UserProfile", None, TRUE, <<ModelField("id", NoDefault, HintInt)>>)
ClassBaseUser ==
    ModelClass("BaseUser", None, TRUE, <<ModelField("id", NoDefault, HintInt)>>)
ClassAccount ==
    ModelClass("Account", "users", TRUE, <<ModelField("email", NoDefault, HintStr)>>)
ClassOrder ==
    ModelClass("Order", None, FALSE, <<ModelField("user", NoDefault, HintInt)>>)
MemberBaseModel == OtherMember("BaseModel")

\* the members a module of the model may have, in the order of their names
MemberPool == <<ClassAccount, ClassBaseUser, MemberBaseModel, ClassOrder, ClassUser, ClassUserProfile>>

\* the members of MemberPool at the positions in chosen, in order
RECURSIVE MembersFrom(_, _)
MembersFrom(chosen, i) ==
    IF i > Len(MemberPool) THEN <<>>
    ELSE IF i \in chosen THEN <<MemberPool[i]>> \o MembersFrom(chosen, i + 1)
    ELSE MembersFrom(chosen, i + 1)

\* importlib.import_module(models_module) raises ImportError
NotImportable == [importable |-> FALSE, members |-> <<>>]

\* the module named app.models may be any of these
AppModules ==
    {NotImportable} \cup
    {[importable |-> TRUE, members |-> MembersFrom(chosen, 1)] :
        chosen \in SUBSET (1..Len(MemberPool))}

\* the module named legacy.models, when there is one
LegacyModules ==
    {NotImportable,
     [importable |-> TRUE, members |-> <<ClassUserProfile>>],
     [importable |-> TRUE, members |-> <<MemberBaseModel, ClassUser>>]}

ModuleNames == {"app.models", "legacy.models"}

\* config of a call: models_module absent, empty or a module name
Configs == [models_module : {None, ""} \cup ModuleNames]

\* the loop of lines 30-44 from the i-th member on
RECURSIVE ExtractMembers(_, _, _)
ExtractMembers(members, i, schemas) ==
    IF i > Len(members) THEN [ret |-> Ok(schemas), extracted_schemas |-> schemas]
    ELSE IF ~members[i].is_model THEN ExtractMembers(members, i + 1, schemas)
    ELSE IF ~_analyze_model(members[i]).ok
    THEN [ret |-> _analyze_model(members[i]), extracted_schemas |-> schemas]
    ELSE IF _analyze_model(members[i]).val = NoSchemaInfo
    THEN ExtractMembers(members, i + 1, schemas)
    ELSE ExtractMembers(members, i + 1,
            DictPut(schemas, _analyze_model(members[i]).val.table_name, _analyze_model(members[i]).val))

\* FastAPIExtractor.extract_schema
FastAPI_extract_schema(config, sys_modules, schemas) ==
    IF config.models_module \in {None, ""}
    THEN [ret |-> Raise("ValueError", <<"models_module is required for FastAPI extraction">>),
          extracted_schemas |-> schemas]
    ELSE IF ~sys_modules[config.models_module].importable
    THEN [ret |-> Raise("ImportError", <<"Could not import models module ", config.models_module>>),
          extracted_schemas |-> schemas]
    ELSE ExtractMembers(sys_modules[config.models_module].members, 1, schemas)

----------------------------------------------------------------------------
(* The validator as a state machine *)

\* ret before the first call
NoCall == [raised |-> FALSE, success |-> FALSE, path |-> "none", before |-> 0]

\* prior before any instance returned
NoPrior == [done |-> FALSE, success |-> FALSE, issues |-> <<>>]

\* no function applied on its own
NoArg == [any |-> FALSE]
NotApplied == [applied |-> FALSE]
FunctionsIdle == given = NoArg /\ returned = NotApplied

\* no _compile_dbt_project call
NoDbt == [installed |-> FALSE]
NoProc == [pc |-> "none"]
CompileIdle == dbt = NoDbt /\ proc = NoProc

\* no FastAPIExtractor
NoFastapiCall == [called |-> FALSE]
FastAPIIdle ==
    /\ modules = [m \in {} |-> NotImportable]
    /\ self_extracted_schemas = EmptyDict
    /\ fret = NoFastapiCall
    /\ fcalls = 0

\* the extractor's variables, while the model follows the validator
ExtractorIdle ==
    /\ project = [sql |-> [s \in {} |-> SelectId], manifest |-> NoManifest]
    /\ cache = EmptyCache
    /\ xret = NoExtract
    /\ xcalls = 0
    /\ xdirty = FALSE
    /\ xobj = "none"
    /\ written = NothingWritten

\* YAMLContractValidator(fastapi_yaml_path, dbt_yaml_path), the two files
\* holding any of the documents
Init ==
    /\ fastapi_yaml \in FastapiDocuments
    /\ dbt_yaml \in DbtDocuments
    /\ issues = <<>>
    /\ ret = NoCall
    /\ calls = 0
    /\ dirty = FALSE
    /\ prior = NoPrior
    /\ ExtractorIdle
    /\ FunctionsIdle
    /\ FastAPIIdle
    /\ CompileIdle

\* the call leaves with r
Return(r) ==
    /\ issues' = r.issues
    /\ ret' = [raised |-> r.raised, success |-> r.success, path |-> r.path,
               before |-> Len(issues)]

\* one call of validate_contracts
ValidateContracts ==
    /\ calls < MaxCalls
    /\ \E missing_order \in SetOrders, names_order \in SetOrders :
          Return(validate_contracts(issues, fastapi_yaml, dbt_yaml,
                                    missing_order, names_order))
    /\ calls' = calls + 1
    /\ dirty' = FALSE
    /\ UNCHANGED <<fastapi_yaml, dbt_yaml, prior, outsideValidator>>

\* the file at fastapi_yaml_path is rewritten between two calls
RewriteFastapiYaml ==
    /\ calls >= 1
    /\ calls < MaxCalls
    /\ ~dirty
    /\ \E d \in FastapiDocuments \ {fastapi_yaml} : fastapi_yaml' = d
    /\ dirty' = TRUE
    /\ UNCHANGED <<dbt_yaml, issues, ret, calls, prior, outsideValidator>>

\* the file at dbt_yaml_path is rewritten between two calls
RewriteDbtYaml ==
    /\ calls >= 1
    /\ calls < MaxCalls
    /\ ~dirty
    /\ \E d \in DbtDocuments \ {dbt_yaml} : dbt_yaml' = d
    /\ dirty' = TRUE
    /\ UNCHANGED <<fastapi_yaml, issues, ret, calls, prior, outsideValidator>>

Next ==
    \/ ValidateContracts
    \/ RewriteFastapiYaml
    \/ RewriteDbtYaml

Spec == Init /\ [][Next]_vars

----------------------------------------------------------------------------
(* Two validator instances, one after the other, on the same files *)

\* the first call on an instance
FirstCall == calls = 0 /\ ValidateContracts

\* the caller keeps the result of the first instance and constructs a second
\* instance on the same paths
NewValidator ==
    /\ calls = 1
    /\ ~prior.done
    /\ ~ret.raised
    /\ prior' = [done |-> TRUE, success |-> ret.success, issues |-> issues]
    /\ issues' = <<>>
    /\ ret' = NoCall
    /\ calls' = 0
    /\ UNCHANGED <<fastapi_yaml, dbt_yaml, dirty, outsideValidator>>

NextTwoRuns ==
    \/ FirstCall
    \/ NewValidator

SpecTwoRuns == Init /\ [][NextTwoRuns]_vars

----------------------------------------------------------------------------
(* The DBT extractor as a state machine: extract_schema calls on one       *)
(* extractor, and between two calls the project's files may change or an   *)
(* hour may pass                                                           *)
(***************************************************************************)

\* the validator's variables, while the model follows the extractor
ValidatorIdle ==
    /\ fastapi_yaml = MissingFile
    /\ dbt_yaml = MissingFile
    /\ issues = <<>>
    /\ ret = NoCall
    /\ calls = 0
    /\ dirty = FALSE
    /\ prior = NoPrior

\* before DBTExtractor(): a project with any SQL files and any manifest, and
\* no cache file yet
InitDBT ==
    /\ ValidatorIdle
    /\ FunctionsIdle
    /\ FastAPIIdle
    /\ CompileIdle
    /\ project \in [sql : SqlFiles, manifest : ManifestFiles]
    /\ cache = EmptyCache
    /\ xret = NoExtract
    /\ xcalls = 0
    /\ xdirty = FALSE
    /\ xobj = "none"
    /\ written = NothingWritten

\* what self.cache_dir.mkdir(parents=True, exist_ok=True) may do
MkdirOutcomes == {"created", "denied"}

\* DBTExtractor.__init__: the assignments cannot fail, mkdir raises OSError
\* when the directory cannot be created
__init__(mkdir) ==
    IF mkdir = "created" THEN Ok(None)
    ELSE Raise("PermissionError", <<"Permission denied">>)

\* DBTExtractor(project_path)
NewDBTExtractor ==
    /\ xobj = "none"
    /\ \E mkdir \in MkdirOutcomes :
          xobj' = IF __init__(mkdir).ok THEN "constructed" ELSE "raised"
    /\ UNCHANGED <<outsideExtractor, project, cache, xret, xcalls, xdirty,
                   written>>

\* the content of the project's source files: the SQL files and the manifest
Content(sql, manifest) ==
    [sql |-> sql,
     manifest |-> IF manifest.exists THEN manifest.doc ELSE NoManifest]

\* the call wrote a cache file that json.load accepts
Wrote(r, env) == r.path \in {"manifest", "sql"} /\ env.write = "written"

\* written after a call that left the cache directory as cch: the entries
\* that are gone are forgotten, the entry the call wrote is remembered with
\* the files as they are when it is written
Remembered(cch, cache_key, wrote, content) ==
    [k \in {c \in DOMAIN cch : cch[c].json} |->
        IF wrote /\ k = cache_key THEN content ELSE written[k]]

\* the call leaves with r
Extract(fast_mode, env, r) ==
    /\ project' = [project EXCEPT !.manifest = r.manifest]
    /\ cache' = r.cache
    /\ xret' = [path |-> r.path, fast |-> fast_mode, schemas |-> r.schemas,
                compiled |-> r.compiled, had |-> project.manifest]
    /\ written' = Remembered(r.cache, _get_cache_key(project.sql),
                             Wrote(r, env), Content(project.sql, r.manifest))

\* the call returns the cached schemas: line 49 holds
CacheHit(proj, cch) ==
    /\ _get_cached_schema(cch, _get_cache_key(proj.sql)).found
    /\ _get_cached_schema(cch, _get_cache_key(proj.sql)).schema.keys # <<>>
    /\ _is_cache_valid(cch, _get_cache_key(proj.sql))

\* env is told apart only by what the call reads of it: no compilation and
\* no cache write in fast mode or on a cache hit, no compilation with a
\* recent manifest, one order of the files with fewer than two files or on a
\* cache hit
Read(fast_mode, proj, cch, env) ==
    /\ fast_mode \/ CacheHit(proj, cch) =>
           env.compile = "ok" /\ env.write = "written"
    /\ proj.manifest.exists /\ proj.manifest.recent => env.compile = "ok"
    /\ Cardinality(DOMAIN proj.sql) < 2 => env.rglob = TableOrder
    /\ ~fast_mode /\ CacheHit(proj, cch) => env.rglob = TableOrder

\* one call of extract_schema
ExtractSchema ==
    /\ xobj = "constructed"
    /\ xcalls < MaxExtracts
    /\ \E fast_mode \in BOOLEAN, env \in Environments :
          /\ Read(fast_mode, project, cache, env)
          /\ Extract(fast_mode, env,
                     extract_schema(fast_mode, project, cache, env))
    /\ xcalls' = xcalls + 1
    /\ xdirty' = FALSE
    /\ xobj' = xobj
    /\ UNCHANGED outsideExtractor

\* a SQL file under models/ is written between two calls
WriteSqlFile ==
    /\ xcalls >= 1
    /\ xcalls < MaxExtracts
    /\ ~xdirty
    /\ \E stem \in TableNames, text \in SqlTexts :
          /\ stem \in DOMAIN project.sql => project.sql[stem] # text
          /\ project' = [project EXCEPT !.sql =
                [s \in DOMAIN project.sql \cup {stem} |->
                    IF s = stem THEN text ELSE project.sql[s]]]
    /\ xdirty' = TRUE
    /\ UNCHANGED <<outsideExtractor, cache, xret, xcalls, xobj, written>>

\* a SQL file under models/ is removed between two calls
RemoveSqlFile ==
    /\ xcalls >= 1
    /\ xcalls < MaxExtracts
    /\ ~xdirty
    /\ \E stem \in DOMAIN project.sql :
          project' = [project EXCEPT !.sql =
                [s \in DOMAIN project.sql \ {stem} |-> project.sql[s]]]
    /\ xdirty' = TRUE
    /\ UNCHANGED <<outsideExtractor, cache, xret, xcalls, xobj, written>>

\* target/manifest.json is written between two calls, by a dbt run outside
\* the extractor
WriteManifest ==
    /\ xcalls >= 1
    /\ xcalls < MaxExtracts
    /\ ~xdirty
    /\ \E doc \in ManifestDocs :
          /\ project.manifest # ManifestFile(doc, TRUE)
          /\ project' = [project EXCEPT !.manifest = ManifestFile(doc, TRUE)]
    /\ xdirty' = TRUE
    /\ UNCHANGED <<outsideExtractor, cache, xret, xcalls, xobj, written>>

\* target/ is removed between two calls
RemoveManifest ==
    /\ xcalls >= 1
    /\ xcalls < MaxExtracts
    /\ ~xdirty
    /\ project.manifest.exists
    /\ project' = [project EXCEPT !.manifest = NoManifest]
    /\ xdirty' = TRUE
    /\ UNCHANGED <<outsideExtractor, cache, xret, xcalls, xobj, written>>

\* the manifest an hour later
AgedManifest(manifest) ==
    IF manifest.exists THEN ManifestFile(manifest.doc, FALSE) ELSE manifest

\* a cache file an hour later
AgedEntry(entry) ==
    IF entry.json THEN JsonEntry(entry.schema, FALSE) ELSE entry

\* an hour passes between two calls
HourPasses ==
    /\ xcalls >= 1
    /\ xcalls < MaxExtracts
    /\ ~xdirty
    /\ project' = [project EXCEPT !.manifest = AgedManifest(project.manifest)]
    /\ cache' = [k \in DOMAIN cache |-> AgedEntry(cache[k])]
    /\ xdirty' = TRUE
    /\ UNCHANGED <<outsideExtractor, xret, xcalls, xobj, written>>

NextDBT ==
    \/ NewDBTExtractor
    \/ ExtractSchema
    \/ WriteSqlFile
    \/ RemoveSqlFile
    \/ WriteManifest
    \/ RemoveManifest
    \/ HourPasses

SpecDBT == InitDBT /\ [][NextDBT]_vars

----------------------------------------------------------------------------
(* _analyze_field applied to one field of a Pydantic model *)

\* the field and its type hint
InitField ==
    /\ ValidatorIdle
    /\ ExtractorIdle
    /\ FastAPIIdle
    /\ CompileIdle
    /\ given \in [field_name : {"x"}, field_info : FieldInfos, type_hint : TypeHints]
    /\ returned = NotApplied

AnalyzeField ==
    /\ returned = NotApplied
    /\ returned' = [applied |-> TRUE,
               column_info |-> _analyze_field(given.field_name, given.field_info, given.type_hint)]
    /\ UNCHANGED <<given, validatorVars, extractorVars, fastapiVars, compileVars>>

SpecField == InitField /\ [][AnalyzeField]_vars

----------------------------------------------------------------------------
(* The FastAPI extractor as a state machine: extract_schema calls on one   *)
(* extractor                                                               *)

\* FastAPIExtractor(), and what the two module names import
InitFastAPI ==
    /\ ValidatorIdle
    /\ ExtractorIdle
    /\ FunctionsIdle
    /\ CompileIdle
    /\ modules \in [ModuleNames -> AppModules \cup LegacyModules]
    /\ modules["app.models"] \in AppModules
    /\ modules["legacy.models"] \in LegacyModules
    /\ self_extracted_schemas = EmptyDict
    /\ fret = NoFastapiCall
    /\ fcalls = 0

\* what a call leaves behind
FastAPIExtracted(config, r) ==
    /\ self_extracted_schemas' = r.extracted_schemas
    /\ fret' = [called |-> TRUE, config |-> config, ret |-> r.ret]

\* extractor.extract_schema(config)
ExtractSchemaFastAPI ==
    /\ fcalls < MaxFastapiCalls
    /\ \E config \in Configs :
          FastAPIExtracted(config, FastAPI_extract_schema(config, modules, self_extracted_schemas))
    /\ fcalls' = fcalls + 1
    /\ UNCHANGED <<modules, validatorVars, extractorVars, functionVars, compileVars>>

SpecFastAPI == InitFastAPI /\ [][ExtractSchemaFastAPI]_vars

----------------------------------------------------------------------------
(* _compile_dbt_project as a process: it runs dbt --version, waits for it, *)
(* runs dbt compile, waits for it.  A child process takes a number of      *)
(* seconds or never exits.                                                 *)

\* how long a child may take
Durations == {1, CompileTimeout, CompileTimeout + 1, Never}

\* the dbt executable: whether it is on PATH, and what its two runs do
DbtExecutables ==
    [installed : BOOLEAN,
     version : [takes : {1, Never}, returncode : {0, 1}],
     compile : [takes : Durations, returncode : {0, 1}, stderr : StderrTexts]]

\* the call at pc, waiting with timeout, after event, with res
Proc(pc, timeout, event, res) ==
    [pc |-> pc, timeout |-> timeout, event |-> event, res |-> res]

InitCompile ==
    /\ ValidatorIdle
    /\ ExtractorIdle
    /\ FunctionsIdle
    /\ FastAPIIdle
    /\ dbt \in DbtExecutables
    /\ proc = Proc("start", NoTimeout, "none", NotApplied)

\* line 167: subprocess.run(["dbt", "--version"], ...) starts the child, or
\* raises FileNotFoundError
RunVersion ==
    /\ proc.pc = "start"
    /\ proc' = IF dbt.installed
               THEN Proc("version", NoTimeout, "started", NotApplied)
               ELSE Proc("raised", NoTimeout, "not found", _compile_dbt_project("no dbt"))
    /\ UNCHANGED <<dbt, validatorVars, extractorVars, functionVars, fastapiVars>>

\* lines 167-189: dbt --version exits; check=True raises on a non-zero
\* return code, else dbt compile is run with timeout=120
VersionExits ==
    /\ proc.pc = "version"
    /\ ExitsInTime(dbt.version, proc.timeout)
    /\ proc' = IF dbt.version.returncode # 0
               THEN Proc("raised", NoTimeout, "version failed", _compile_dbt_project("no dbt"))
               ELSE Proc("compile", Timeout(CompileTimeout), "started", NotApplied)
    /\ UNCHANGED <<dbt, validatorVars, extractorVars, functionVars, fastapiVars>>

\* lines 182-201: dbt compile exits in time
CompileExits ==
    /\ proc.pc = "compile"
    /\ ExitsInTime(dbt.compile, proc.timeout)
    /\ proc' = IF dbt.compile.returncode # 0
               THEN Proc("raised", NoTimeout, "compile failed", CompilationFailed(dbt.compile.stderr))
               ELSE Proc("returned", NoTimeout, "compiled", _compile_dbt_project("ok"))
    /\ UNCHANGED <<dbt, validatorVars, extractorVars, functionVars, fastapiVars>>

\* lines 192-193: the timeout of the dbt compile run expires
CompileTimesOut ==
    /\ proc.pc = "compile"
    /\ proc.timeout.armed
    /\ ~ExitsInTime(dbt.compile, proc.timeout)
    /\ proc' = Proc("raised", NoTimeout, "timed out", _compile_dbt_project("timeout"))
    /\ UNCHANGED <<dbt, validatorVars, extractorVars, functionVars, fastapiVars>>

NextCompile ==
    \/ RunVersion
    \/ VersionExits
    \/ CompileExits
    \/ CompileTimesOut

SpecCompile == InitCompile /\ [][NextCompile]_vars

----------------------------------------------------------------------------
(* The loaders applied to one input each: _load_manifest_schemas to a      *)
(* manifest, _extract_from_sql_files to the files under models/,           *)
(* _load_fastapi_schema to a target document                               *)

\* nodes a manifest may hold: two well-formed models, a model whose columns
\* entry is a list, a model with a column whose info is null, a test
NodeUsers ==
    ManifestNode("model", "users", None,
                 MappingOf(<<ManifestColumn("id", "integer")>>))
NodeOrders ==
    ManifestNode("model", "stg_orders", "orders",
                 MappingOf(<<ManifestColumn("ID", "integer"),
                             ManifestColumn("email", "varchar")>>))
NodeColumnsList == ManifestNode("model", "events", None, NotAMapping)
NodeColumnNull ==
    ManifestNode("model", "items", None,
                 MappingOf(<<ManifestColumn("id", "integer"),
                             ColumnWithoutInfo("price")>>))
NodeTest == ManifestNode("test", "not_null_users_id", None, MappingOf(<<>>))

ManifestNodes == {NodeUsers, NodeOrders, NodeColumnsList, NodeColumnNull, NodeTest}

\* the manifests with up to MaxNodes nodes, no node twice
LoadedManifests ==
    {InvalidJson} \cup
    {[json |-> TRUE, nodes |-> nodes] : nodes \in
        {ns \in UNION {[1..n -> ManifestNodes] : n \in 0..MaxNodes} :
            \A i, j \in 1..Len(ns) : i # j => ns[i] # ns[j]}}

\* SQL files: a column selected twice, a file without a select
LoadedSqlTexts == SqlTexts \cup {SelectIdTwice, NoSelect, Undecodable}
LoadedSqlFiles == UNION {[S -> LoadedSqlTexts] : S \in SUBSET TableNames}

\* target documents: tables whose columns list has an entry without name
\* beside well-formed entries
LoadedColumnLists ==
    {<<ColumnEntry("id", "varchar", TRUE)>>,
     <<ColumnEntry("id", "varchar", TRUE), NamelessEntry>>,
     <<NamelessEntry, ColumnEntry("email", "varchar", FALSE)>>}
LoadedDocuments ==
    {TablesDocument(S, cols) : S \in SUBSET TableNames, cols \in LoadedColumnLists}

InitLoad ==
    /\ ValidatorIdle
    /\ ExtractorIdle
    /\ FastAPIIdle
    /\ CompileIdle
    /\ given \in [kind : {"manifest"}, doc : LoadedManifests]
           \cup [kind : {"sql"}, sql : LoadedSqlFiles, rglob : SetOrders]
           \cup [kind : {"yaml"}, doc : LoadedDocuments]
    /\ returned = NotApplied

\* what a loader gave
Loaded(r) ==
    /\ returned' = [applied |-> TRUE, res |-> r]
    /\ UNCHANGED <<given, validatorVars, extractorVars, fastapiVars, compileVars>>

LoadManifestSchemas ==
    /\ returned = NotApplied
    /\ given.kind = "manifest"
    /\ Loaded(_load_manifest_schemas(given.doc))

ExtractFromSqlFiles ==
    /\ returned = NotApplied
    /\ given.kind = "sql"
    /\ Loaded(Ok(_extract_from_sql_files(given.sql, given.rglob)))

LoadFastapiSchema ==
    /\ returned = NotApplied
    /\ given.kind = "yaml"
    /\ Loaded(_load_fastapi_schema(given.doc))

NextLoad ==
    \/ LoadManifestSchemas
    \/ ExtractFromSqlFiles
    \/ LoadFastapiSchema

SpecLoad == InitLoad /\ [][NextLoad]_vars

----------------------------------------------------------------------------
(* A ValidationIssue serialized with to_dict and read back with from_dict *)

\* the issues of the model
Issues ==
    [severity : ValidationSeverities,
     table : TableNames,
     column : {None} \cup ColNames,
     message : {<<"Table is missing">>, <<"">>},
     category : {"Unknown", "Missing Table"},
     suggested_fix : {NoText, <<"Add the table">>},
     file_path : {NoText},
     fastapi_expectation : {NoText, <<"required">>},
     dbt_output : {NoText}]

InitIssue ==
    /\ ValidatorIdle
    /\ ExtractorIdle
    /\ FastAPIIdle
    /\ CompileIdle
    /\ given \in Issues
    /\ returned = NotApplied

\* data = issue.to_dict()
ToDict ==
    /\ returned = NotApplied
    /\ returned' = [applied |-> TRUE, stage |-> "dict", data |-> to_dict(given)]
    /\ UNCHANGED <<given, validatorVars, extractorVars, fastapiVars, compileVars>>

\* ValidationIssue.from_dict(data)
FromDict ==
    /\ returned.applied
    /\ returned.stage = "dict"
    /\ returned' = [applied |-> TRUE, stage |-> "issue", data |-> returned.data,
                    issue |-> from_dict(returned.data)]
    /\ UNCHANGED <<given, validatorVars, extractorVars, fastapiVars, compileVars>>

NextIssue ==
    \/ ToDict
    \/ FromDict

SpecIssue == InitIssue /\ [][NextIssue]_vars

----------------------------------------------------------------------------
(* _analyze_model applied to one model class whose name is written in      *)
(* capitalized words                                                       *)

\* the words class names are made of
NameWords == {"User", "Profile", "Data", "Status", "Base", "Abstract", "Order2", "Baseline"}

\* the names, word by word
WordSeqs == UNION {[1..n -> NameWords] : n \in 1..MaxWords}

\* "".join(words)
RECURSIVE JoinWords(_, _)
JoinWords(words, i) ==
    IF i > Len(words) THEN "" ELSE words[i] \o JoinWords(words, i + 1)

\* Config.table_name of the class
ConfigTableNames == {None, "", "accounts"}

\* the class given to _analyze_model
GivenClass ==
    ModelClass(JoinWords(given.words, 1), given.config_table_name, given.hints_resolve,
               <<ModelField("id", NoDefault, HintInt)>>)

InitModel ==
    /\ ValidatorIdle
    /\ ExtractorIdle
    /\ FastAPIIdle
    /\ CompileIdle
    /\ given \in [words : WordSeqs, config_table_name : ConfigTableNames,
                  hints_resolve : BOOLEAN]
    /\ returned = NotApplied

\* schema_info = self._analyze_model(obj), with the table name it inferred
AnalyzeModel ==
    /\ returned = NotApplied
    /\ returned' = [applied |-> TRUE,
                    table_name |-> _infer_table_name(GivenClass),
                    schema_info |-> _analyze_model(GivenClass)]
    /\ UNCHANGED <<given, validatorVars, extractorVars, fastapiVars, compileVars>>

SpecModel == InitModel /\ [][AnalyzeModel]_vars

----------------------------------------------------------------------------
(* _extract_columns_from_sql applied to one text *)

\* what a text may have before its statement, as its statement and after it
SqlHeads ==
    {"", "{{ config(x) }} ", "-- select n from c\n", "/* select n\nfrom c */ ",
     "with c as (select x from t) "}
SqlStatements ==
    {"select id from t", "SELECT id, email\nFROM t", "select count(*) as total from t",
     "select * from t", "id, email", "select  from t"}
SqlTails ==
    {"", "\n", " -- select z from u", " -- select z from u\n",
     " where a in (select b from u)"}

InitSql ==
    /\ ValidatorIdle
    /\ ExtractorIdle
    /\ FastAPIIdle
    /\ CompileIdle
    /\ given \in {head \o statement \o tail :
                    head \in SqlHeads, statement \in SqlStatements, tail \in SqlTails}
    /\ returned = NotApplied

\* columns = self._extract_columns_from_sql(sql_content)
ExtractColumnsFromSql ==
    /\ returned = NotApplied
    /\ returned' = [applied |-> TRUE, columns |-> _extract_columns_from_sql(given)]
    /\ UNCHANGED <<given, validatorVars, extractorVars, fastapiVars, compileVars>>

SpecSql == InitSql /\ [][ExtractColumnsFromSql]_vars

----------------------------------------------------------------------------
(* _split_columns applied to one select clause *)

\* the characters of the clauses: a letter, the comma, the parentheses and
\* the blank
ClauseChars == {"a", ",", "(", ")", " "}

\* the clauses of n characters
RECURSIVE ClausesOfLen(_)
ClausesOfLen(n) ==
    IF n = 0 THEN {""}
    ELSE {clause \o c : clause \in ClausesOfLen(n - 1), c \in ClauseChars}

InitSplit ==
    /\ ValidatorIdle
    /\ ExtractorIdle
    /\ FastAPIIdle
    /\ CompileIdle
    /\ given \in UNION {ClausesOfLen(n) : n \in 0..MaxClauseLen}
    /\ returned = NotApplied

\* column_parts = self._split_columns(final_select)
SplitColumns ==
    /\ returned = NotApplied
    /\ returned' = [applied |-> TRUE, column_parts |-> _split_columns(given)]
    /\ UNCHANGED <<given, validatorVars, extractorVars, fastapiVars, compileVars>>

SpecSplit == InitSplit /\ [][SplitColumns]_vars

----------------------------------------------------------------------------
(* _parse_column applied to one column of a select clause *)

\* the expressions and what may follow them
ColumnExpressions ==
    {"id", "u.id", "account_id", "updated_at", "created_at", "count(*)", "avg(price)",
     "upper(name)", "price * qty", "case when a then b else c end",
     "current_timestamp", "is_active = true", "cast(x as date)", "amount"}
ColumnAliases == {"", " as total", " AS User_Id", " spend", " n"}

InitColumn ==
    /\ ValidatorIdle
    /\ ExtractorIdle
    /\ FastAPIIdle
    /\ CompileIdle
    /\ given \in {expression \o alias :
                    expression \in ColumnExpressions, alias \in ColumnAliases}
    /\ returned = NotApplied

\* column_info = self._parse_column(col_text)
ParseColumn ==
    /\ returned = NotApplied
    /\ returned' = [applied |-> TRUE, column_info |-> _parse_column(given)]
    /\ UNCHANGED <<given, validatorVars, extractorVars, fastapiVars, compileVars>>

SpecColumn == InitColumn /\ [][ParseColumn]_vars

----------------------------------------------------------------------------
(* _find_similar_table_names and _find_similar_column_names applied to one *)
(* missing name and the source names in their iteration order              *)

\* the missing names and the source names
MissingNames == {"orders", "email", "Users"}
SourceNames == {"order", "orders_v2", "reorders", "gmail", "emails", "users"}

\* the sequences of n distinct source names
RECURSIVE CandidatesOfLen(_)
CandidatesOfLen(n) ==
    IF n = 0 THEN {<<>>}
    ELSE {Append(candidates, name) :
            candidates \in CandidatesOfLen(n - 1), name \in SourceNames}
         \ {candidates \in [1..n -> SourceNames] :
                \E i, j \in 1..n : i # j /\ candidates[i] = candidates[j]}

InitSimilar ==
    /\ ValidatorIdle
    /\ ExtractorIdle
    /\ FastAPIIdle
    /\ CompileIdle
    /\ given \in [target : MissingNames,
                  candidates : UNION {CandidatesOfLen(n) : n \in 0..MaxCandidates}]
    /\ returned = NotApplied

\* lines 184-189: the suggestion for a missing table
SuggestTables ==
    /\ returned = NotApplied
    /\ returned' = [applied |-> TRUE, of |-> "table",
                    similar |-> _find_similar_table_names(given.target, given.candidates),
                    suggestion |-> Suggestion(_find_similar_table_names(given.target, given.candidates),
                                              "Create this table in your DBT models")]
    /\ UNCHANGED <<given, validatorVars, extractorVars, fastapiVars, compileVars>>

\* lines 246-253: the suggestion for a missing required column
SuggestColumns ==
    /\ returned = NotApplied
    /\ returned' = [applied |-> TRUE, of |-> "column",
                    similar |-> _find_similar_column_names(given.target, given.candidates),
                    suggestion |-> Suggestion(_find_similar_column_names(given.target, given.candidates),
                                              "Add this column to your DBT model")]
    /\ UNCHANGED <<given, validatorVars, extractorVars, fastapiVars, compileVars>>

NextSimilar ==
    \/ SuggestTables
    \/ SuggestColumns

SpecSimilar == InitSimilar /\ [][NextSimilar]_vars

----------------------------------------------------------------------------
(* cli.py: CICDValidator and the validate command                          *)
(*                                                                         *)
(* Durations are left out of the results.  A document written by yaml.dump *)
(* is read back by yaml.safe_load as the mapping that was dumped; of its   *)
(* keys the loaders read tables only.  An exception that nothing catches   *)
(* ends the interpreter with status 1, sys.exit(1) does the same, and a    *)
(* main that returns ends it with status 0.                                *)
(***************************************************************************)

\* class ValidationMode
FAST == "fast"
DIFF == "diff"
FULL == "full"
ValidationModes == {FAST, DIFF, FULL}

\* relevant_patterns of _has_relevant_changes, and the endings it accepts
RelevantPatterns == {"models/", "app/models", "models.py", ".retl-validator.yml"}
RelevantEndings == {".sql", ".py", ".yml"}

\* the condition of the comprehension of _has_relevant_changes
IsRelevantFile(f) ==
    /\ \E pattern \in RelevantPatterns : Contains(f, pattern)
    /\ \E ending \in RelevantEndings : StrEndsWith(f, ending)

_has_relevant_changes(changed_files) ==
    \E i \in 1..Len(changed_files) : IsRelevantFile(changed_files[i])

\* _create_temp_yaml_files with the table users put in the target document
_create_temp_yaml_files_populated ==
    [fastapi_yaml_path |-> TablesDocument({"users"}, <<>>),
     dbt_yaml_path |-> TablesDocument({}, <<>>)]

\* _create_temp_yaml_files: the two documents it writes
_create_temp_yaml_files ==
    [fastapi_yaml_path |-> TablesDocument({}, <<>>),
     dbt_yaml_path |-> TablesDocument({}, <<>>)]

\* _generate_summary: the number in the text and the text around it
_generate_summary(iss) ==
    IF iss = <<>> THEN <<0, "All data contracts are valid">>
    ELSE IF CriticalIssues(iss) # <<>>
    THEN <<Len(CriticalIssues(iss)), "critical issues found (blocking)">>
    ELSE IF SelectSeq(iss, LAMBDA i : i.severity = SeverityWARNING) # <<>>
    THEN <<Len(SelectSeq(iss, LAMBDA i : i.severity = SeverityWARNING)),
           "warnings found (non-blocking)">>
    ELSE <<0, "Minor issues found">>

\* validate_for_cicd did not call the validator
NotValidated == [raised |-> FALSE, success |-> FALSE, path |-> "none",
                 issues |-> <<>>]

\* what validate_for_cicd did: the dict it returned and what the
\* validate_contracts call inside it returned
Result(result, validated) == [ok |-> TRUE, val |-> result, validated |-> validated]

\* lines 56-62: fast mode without a relevant change
NoRelevantChanges(mode) ==
    Result([success |-> TRUE, issues |-> <<>>,
            summary |-> <<0, "No relevant changes detected">>, mode |-> mode],
           NotValidated)

\* lines 94-102: except Exception as e
ErrorResult(mode, exc, validated) ==
    Result([success |-> FALSE, issues |-> <<>>,
            summary |-> <<0, "Error">> \o exc.msg, mode |-> mode],
           validated)

\* lines 78-92: the result built from what validate_contracts returned
Formatted(v, mode) ==
    IF v.raised
    THEN ErrorResult(mode, [type |-> "Exception", msg |-> <<"raised">>], v)
    ELSE Result([success |-> v.success,
                 issues |-> [i \in 1..Len(v.issues) |-> to_dict(v.issues[i])],
                 summary |-> _generate_summary(v.issues),
                 mode |-> mode],
                v)

\* where the run meets an exception that is not the program's doing: the
\* temporary files cannot be created (line 65, outside the try), or the
\* output stream refuses the first print of validate_contracts
\* (validator.py line 37, outside the try of validate_contracts)
Faults == {"none", "tempfile", "print"}

\* lines 67-102: the try block and its except clause
TryValidator(mode, documents, fault) ==
    IF fault = "print"
    THEN ErrorResult(mode, [type |-> "OSError", msg |-> <<"write could not complete">>],
                     NotValidated)
    ELSE Formatted(validate_contracts(<<>>, documents.fastapi_yaml_path,
                                      documents.dbt_yaml_path,
                                      TableOrder, TableOrder),
                   mode)

\* validate_for_cicd
validate_for_cicd(mode, changed_files, fault) ==
    IF mode = FAST /\ changed_files # <<>> /\ ~_has_relevant_changes(changed_files)
    THEN NoRelevantChanges(mode)
    ELSE IF fault = "tempfile"
    THEN Raise("OSError", <<"No space left on device">>)
    ELSE TryValidator(mode, _create_temp_yaml_files, fault)

\* the environments get_validation_context tells apart
CIEnvironments == {"github_actions", "pre_commit", "local"}

\* get_validation_context; changed is what git lists
get_validation_context(environment, changed) ==
    CASE environment = "github_actions" ->
            [mode |-> DIFF, changed_files |-> changed, environment |-> environment]
      [] environment = "pre_commit" ->
            [mode |-> FAST, changed_files |-> changed, environment |-> environment]
      [] OTHER ->
            [mode |-> FULL, changed_files |-> <<>>, environment |-> environment]

\* the configuration file named by --config
ConfigFiles == {"absent", "mapping", "not YAML"}

\* CICDValidator.__init__
CICDValidator(config_file) ==
    IF config_file = "not YAML" THEN Raise("YAMLError", <<"could not parse">>)
    ELSE Ok([config |-> config_file])

\* the choice of the formatter in main
OutputOf(args, context) ==
    IF args.output_format = "github" \/ context.environment = "github_actions"
    THEN "output_for_github_actions"
    ELSE IF args.output_format = "json" THEN "json.dumps"
    ELSE "output_for_terminal"

\* lines 373-379 of main: the status the command ends with
ExitStatus(args, result) ==
    IF ~result.success
    THEN IF args.fail_on = "error"
              /\ SelectSeq(result.issues, LAMBDA i : i.severity = "error") # <<>>
         THEN 1
         ELSE IF args.fail_on = "warning" /\ result.issues # <<>>
         THEN 1
         ELSE 0
    ELSE 0

\* main after validate_for_cicd: r is what the call did
Finished(args, context, r) ==
    IF ~r.ok
    THEN [status |-> 1, uncaught |-> TRUE, validated |-> NotValidated]
    ELSE [status |-> ExitStatus(args, r.val), uncaught |-> FALSE,
          result |-> r.val, validated |-> r.validated,
          output |-> OutputOf(args, context)]

\* the mode main passes on: --mode overrides the mode of the context
ModeOf(args, context) == IF args.mode # None THEN args.mode ELSE context.mode

\* main after CICDValidator(args.config): c is what the constructor did
Validated(args, context, c, fault) ==
    IF ~c.ok
    THEN [status |-> 1, uncaught |-> TRUE, validated |-> NotValidated]
    ELSE Finished(args, context,
                  validate_for_cicd(ModeOf(args, context), context.changed_files,
                                    fault))

\* main for the validate command
main(args, environment, changed, config_file, fault) ==
    Validated(args, get_validation_context(environment, changed),
              CICDValidator(config_file), fault)

----------------------------------------------------------------------------
(* The validate command on its own, validate_for_cicd called by a program, *)
(* and validate_contracts called on documents of any content by a          *)
(* validator that may hold the issue of an earlier call.                   *)

\* what git lists as changed
ChangedFiles ==
    {<<>>, <<"README.md">>, <<"models/users.sql">>, <<"app/models.py">>,
     <<"models/notes.txt">>, <<"README.md", ".retl-validator.yml">>}

\* the arguments of the validate command
Arguments ==
    [mode : {None} \cup ValidationModes,
     output_format : {"terminal", "github", "json"},
     fail_on : {"error", "warning"}]

CommandRuns ==
    [op : {"main"}, args : Arguments, environment : CIEnvironments,
     changed : ChangedFiles, config_file : ConfigFiles, fault : Faults]

\* self.issues of the validator before the call
IssuesBefore ==
    {<<>>, <<ExceptionIssue([type |-> "FileNotFoundError",
                             msg |-> <<"FastAPI YAML file not found">>])>>}

ValidatorCalls ==
    [op : {"validate_contracts"}, issues : IssuesBefore,
     fastapi_yaml : FastapiDocuments, dbt_yaml : DbtDocuments]

InitCLI ==
    /\ ValidatorIdle
    /\ ExtractorIdle
    /\ FastAPIIdle
    /\ CompileIdle
    /\ given \in CommandRuns \cup ValidatorCalls
    /\ returned = NotApplied

\* the validate command from its start to the end of the process
Main ==
    /\ returned = NotApplied
    /\ given.op = "main"
    /\ returned' = [applied |-> TRUE, by |-> "main",
                    did |-> main(given.args, given.environment, given.changed,
                                 given.config_file, given.fault)]
    /\ UNCHANGED <<given, validatorVars, extractorVars, fastapiVars, compileVars>>

\* validate_for_cicd on a CICDValidator, with the mode and the files of
\* the command
ValidateForCicd ==
    /\ returned = NotApplied
    /\ given.op = "main"
    /\ given.config_file # "not YAML"
    /\ returned' = [applied |-> TRUE, by |-> "validate_for_cicd",
                    did |-> validate_for_cicd(
                              ModeOf(given.args,
                                     get_validation_context(given.environment,
                                                            given.changed)),
                              get_validation_context(given.environment,
                                                     given.changed).changed_files,
                              given.fault)]
    /\ UNCHANGED <<given, validatorVars, extractorVars, fastapiVars, compileVars>>

\* validate_contracts on a validator whose self.issues is given.issues
ValidateContractsOn ==
    /\ returned = NotApplied
    /\ given.op = "validate_contracts"
    /\ \E missing_order \in SetOrders, names_order \in SetOrders :
          returned' = [applied |-> TRUE, by |-> "validate_contracts",
                       did |-> validate_contracts(given.issues, given.fastapi_yaml,
                                                  given.dbt_yaml,
                                                  missing_order, names_order)]
    /\ UNCHANGED <<given, validatorVars, extractorVars, fastapiVars, compileVars>>

NextCLI ==
    \/ Main
    \/ ValidateForCicd
    \/ ValidateContractsOn

SpecCLI == InitCLI /\ [][NextCLI]_vars

----------------------------------------------------------------------------
(* What the documents declare, read off the documents themselves *)

\* the document is a mapping whose column entries all have a name
WellFormed(doc) ==
    /\ doc.kind = "map"
    /\ \A t \in DOMAIN doc.tables :
          \A i \in 1..Len(doc.tables[t]) : doc.tables[t][i].has_name

TargetTables == DOMAIN fastapi_yaml.tables
SourceTables == DOMAIN dbt_yaml.tables

\* the names of the columns the document declares for table t
ColumnsOf(doc, t) == {doc.tables[t][i].name : i \in 1..Len(doc.tables[t])}

\* the names of the columns the target declares for t with required = r
TargetColumns(t, r) ==
    {fastapi_yaml.tables[t][i].name :
        i \in {j \in 1..Len(fastapi_yaml.tables[t]) :
                 fastapi_yaml.tables[t][j].required = r}}

\* the last call has returned and the files are as they were during it
Returned == calls >= 1 /\ ~dirty /\ ~ret.raised

\* the positions in self.issues of the issues the last call appended
Added == (ret.before + 1)..Len(issues)

\* both documents load
BothLoad == WellFormed(fastapi_yaml) /\ WellFormed(dbt_yaml)

\* the target needs a table or a column that the source lacks
TablesMissing == TargetTables \ SourceTables
RequiredMissing(t) == TargetColumns(t, TRUE) \ ColumnsOf(dbt_yaml, t)
OptionalMissing(t) == TargetColumns(t, FALSE) \ ColumnsOf(dbt_yaml, t)

----------------------------------------------------------------------------
(* Claims about validate_contracts *)

\* C1: for every target table absent from the source, the call returns
\* exactly one ERROR issue with table = that table and column = None
C1_OneIssuePerMissingTable ==
    (Returned /\ BothLoad) =>
        \A t \in TablesMissing :
            Cardinality({i \in Added :
                /\ issues[i].severity = SeverityERROR
                /\ issues[i].table = t
                /\ issues[i].column = None}) = 1

\* C2: for every table in both documents and every required target column
\* the source table lacks, the call returns exactly one ERROR issue with that
\* table and column and a message naming the column
C2_OneIssuePerMissingRequiredColumn ==
    (Returned /\ BothLoad) =>
        \A t \in TargetTables \cap SourceTables :
            \A c \in RequiredMissing(t) :
                Cardinality({i \in Added :
                    /\ issues[i].severity = SeverityERROR
                    /\ issues[i].table = t
                    /\ issues[i].column = c
                    /\ c \in Range(issues[i].message)}) = 1

\* C3: for every optional target column the source table lacks, the call
\* returns exactly one WARNING issue and no ERROR issue for it, and a first
\* call whose only discrepancies are missing optional columns succeeds
C3_MissingOptionalColumnWarns ==
    (Returned /\ BothLoad) =>
        /\ \A t \in TargetTables \cap SourceTables :
              \A c \in OptionalMissing(t) :
                /\ Cardinality({i \in Added :
                      /\ issues[i].severity = SeverityWARNING
                      /\ issues[i].table = t
                      /\ issues[i].column = c}) = 1
                /\ \A i \in Added :
                      (issues[i].table = t /\ issues[i].column = c)
                          => issues[i].severity # SeverityERROR
        /\ ( /\ calls = 1
             /\ TablesMissing = {}
             /\ \A t \in TargetTables : RequiredMissing(t) = {} )
           => ret.success

\* C4: when every target table is in the source and every required target
\* column is in the source table, a first call returns success = TRUE and
\* no ERROR issue
C4_SatisfiedTargetSucceeds ==
    ( /\ Returned /\ BothLoad /\ calls = 1
      /\ TablesMissing = {}
      /\ \A t \in TargetTables : RequiredMissing(t) = {} )
    => (ret.success /\ ~has_blocking_issues(issues))

\* the document cannot be loaded
LoadFails(doc) == ~WellFormed(doc)

\* loading fails in the last call: the target cannot be loaded, or it
\* declares tables and the source cannot be loaded
LoadingFails ==
    \/ LoadFails(fastapi_yaml)
    \/ (TargetTables # {} /\ LoadFails(dbt_yaml))

\* the last call appended exactly the issue of the except clause
OneSyntheticIssue ==
    /\ Len(issues) = ret.before + 1
    /\ issues[Len(issues)].severity = SeverityERROR
    /\ issues[Len(issues)].category = "Validation"
    /\ issues[Len(issues)].table = "N/A"
    /\ issues[Len(issues)].column = None

\* C5: no exception leaves validate_contracts; a call in which loading or
\* diffing fails returns success = FALSE and appends exactly one synthetic
\* ERROR issue
C5_NeverRaises ==
    /\ ~ret.raised
    /\ (calls >= 1 /\ ~dirty /\ LoadingFails) => ret.path = "except"
    /\ ret.path = "except" => (~ret.success /\ OneSyntheticIssue)

\* C5 witness: a second call fails on a column entry without a name and
\* appends the synthetic issue to the issue of the first call
C5_Witness ==
    /\ calls = 2 /\ ~dirty
    /\ fastapi_yaml.kind = "map" /\ ~WellFormed(fastapi_yaml)
    /\ ret.path = "except" /\ ret.before = 1 /\ Len(issues) = 2

\* C6: in every returned result the success flag is TRUE exactly when the
\* returned issues hold no ERROR issue, and has_blocking_issues() is its
\* negation
C6_SuccessIffNoCritical ==
    (calls >= 1 /\ ~ret.raised) =>
        /\ ret.success = (CriticalIssues(issues) = <<>>)
        /\ has_blocking_issues(issues) = ~ret.success

SourceCoversTarget ==
    /\ TargetTables \subseteq SourceTables
    /\ \A t \in TargetTables :
          ColumnsOf(fastapi_yaml, t) \subseteq ColumnsOf(dbt_yaml, t)

\* C8 as claimed: source tables and columns absent from the target and
\* columns present in both produce no issue, so a first call on documents in
\* which the source covers the target returns no issue
C8_OnlyAbsencesReported ==
    (Returned /\ BothLoad /\ calls = 1 /\ SourceCoversTarget) => issues = <<>>

\* C8 amended: the same, for a target that declares at least one table; a
\* target that declares no table gets the one WARNING of the early return
C8_OnlyAbsencesReportedForTables ==
    (Returned /\ BothLoad /\ SourceCoversTarget) =>
        IF TargetTables # {}
        THEN Len(issues) = ret.before /\ (calls = 1 => ret.success)
        ELSE /\ Len(issues) = ret.before + 1
             /\ issues[Len(issues)].severity = SeverityWARNING

\* C8 witness: the source has a table and a column the target lacks and
\* declares another type for a common column, and the call returned no issue
C8_Witness ==
    /\ Returned /\ BothLoad /\ calls = 1
    /\ TargetTables = {"users"} /\ SourceTables = TableNames
    /\ ColumnsOf(fastapi_yaml, "users") = {"id"}
    /\ ColumnsOf(dbt_yaml, "users") = {"id", "email"}
    /\ dbt_yaml.tables["users"][1].type # fastapi_yaml.tables["users"][1].type
    /\ issues = <<>> /\ ret.success

----------------------------------------------------------------------------
(* Claims about two runs *)

----------------------------------------------------------------------------
(* Claims about the DBT extractor *)

\* the last extract_schema call was a full-mode call and nothing changed
\* since it returned
FullCallReturned == xcalls >= 1 /\ ~xdirty /\ ~xret.fast

\* the manifest can be loaded: the file exists and holds a JSON document
Loadable(manifest) == manifest.exists /\ manifest.doc.json

\* the compilation of the last call failed or timed out
CompileFailed == xret.compiled \in {"no dbt", "timeout", "failed"}

\* the schemas come from SQL inference: _extract_from_sql_files records the
\* SQL file of every schema it builds
SqlInferred(schemas) ==
    \E t \in Range(schemas.keys) : "sql_file" \in DOMAIN schemas.val[t]

\* C10: in full mode the manifest takes precedence over SQL inference, in
\* any sequence of extract_schema calls: a call made while a loadable
\* manifest is available, and whose compilation does not fail, returns the
\* schemas the manifest declares, and a call returns SQL-inferred schemas
\* only if the manifest was absent or malformed or its compilation failed or
\* timed out in that call.
C10_ManifestTakesPrecedence ==
    FullCallReturned =>
        /\ Loadable(xret.had) /\ ~CompileFailed =>
               /\ Loadable(project.manifest)
               /\ xret.schemas = _load_manifest_schemas(project.manifest.doc).val
        /\ SqlInferred(xret.schemas) =>
               \/ ~xret.had.exists
               \/ ~xret.had.doc.json
               \/ CompileFailed

\* the step is a full-mode extract_schema call that returns the cached schemas
ReturnsCached == xcalls' = xcalls + 1 /\ xret'.path = "cache"

\* C11: a cached schema is returned only while its entry is under an hour
\* old and only if no SQL file and no manifest of the project has changed
\* content since the entry was written; any change of the content of these
\* files changes the cache key.
C11_CachedOnlyWhileFreshAndUnchanged ==
    [][ /\ ReturnsCached =>
              /\ cache[_get_cache_key(project.sql)].fresh
              /\ written[_get_cache_key(project.sql)]
                    = Content(project.sql, project.manifest)
        /\ Content(project'.sql, project'.manifest)
              # Content(project.sql, project.manifest)
           => _get_cache_key(project'.sql) # _get_cache_key(project.sql)
      ]_vars

\* the step is an extract_schema call
Called == xcalls' = xcalls + 1

\* the call of this step returned what r returns
ReturnedAs(r) == xret'.schemas = r.schemas /\ xret'.path = r.path

\* the call of this step returned and left the cache directory as r does
ProceededAs(r) == xret'.schemas = r.schemas /\ cache' = r.cache

\* the cache file of the project's key is one json.load rejects
CorruptAtKey ==
    /\ _get_cache_key(project.sql) \in DOMAIN cache
    /\ ~cache[_get_cache_key(project.sql)].json

\* C12: cache operations are best-effort.  A failure to create the cache
\* directory never makes the construction fail; a failure to write the cache
\* file changes neither that the call returns nor the schemas it returns; a
\* corrupt cache file is deleted and the call proceeds as if there had been
\* no cache file.
C12_CacheIsBestEffort ==
    [][ /\ xobj' # "raised"
        /\ Called =>
              \E env \in Environments :
                 /\ env.write = "written"
                 /\ ReturnedAs(extract_schema(xret'.fast, project, cache, env))
        /\ Called /\ ~xret'.fast /\ CorruptAtKey =>
              \E env \in Environments :
                 ProceededAs(extract_schema(FALSE, project,
                     Unlink(cache, _get_cache_key(project.sql)), env))
      ]_vars

----------------------------------------------------------------------------
(* Claims about the analysis of one field *)

\* the annotation is itself Optional[X], Union[..., None] or X | None
IsOptional(type_hint) ==
    type_hint.name \in {"Union", "UnionType"} /\ NoneInArgs(type_hint)

\* the required flag by the four rules, read off the field
RequiredByRules(field_info, type_hint) ==
    IF IsOptional(type_hint) THEN FALSE
    ELSE IF field_info.default = "Ellipsis" THEN TRUE
    ELSE IF field_info.default_factory # None THEN FALSE
    ELSE TRUE

\* C19: the required flag of an analysed field is the one the first
\* applicable rule gives: not required when the field's own annotation is
\* optional, else required when the default is the Ellipsis sentinel, else
\* not required when a default factory is declared, else required
C19_RequiredByFirstApplicableRule ==
    returned.applied =>
        returned.column_info.required = RequiredByRules(given.field_info, given.type_hint)

\* the SQL type of a type by its name
SqlTypeOf(name) ==
    CASE name = "str" -> "varchar"
      [] name = "int" -> "integer"
      [] name = "float" -> "float"
      [] name = "bool" -> "boolean"
      [] name = "datetime" -> "timestamp"
      [] name = "date" -> "date"
      [] name \in {"dict", "list"} -> "json"
      [] OTHER -> "varchar"

\* the SQL type of an annotation: that of its inner type when it is optional
RECURSIVE DeclaredType(_)
DeclaredType(type_hint) ==
    IF IsOptional(type_hint)
    THEN DeclaredType(type_hint.args[FirstNotNone(type_hint.args)])
    ELSE SqlTypeOf(type_hint.name)

\* C20: the type of an analysed field is the SQL type of its annotation,
\* optional unwrapped: date for a date, json for a list or a dict whatever
\* its elements
C20_TypeMappedFromUnwrappedAnnotation ==
    returned.applied =>
        returned.column_info.type = DeclaredType(given.type_hint)

----------------------------------------------------------------------------
(* Claims about the extractors' boundary *)

\* C13: an extract_schema call of either extractor returns a schema mapping
\* and raises nothing, whatever the configuration and the environment
C13_ExtractorsNeverThrow ==
    /\ fret.called => fret.ret.ok
    /\ xcalls >= 1 => DOMAIN xret.schemas = {"keys", "val"}

\* a fast-mode call has returned schemas although the project has a manifest
\* and the cache directory an entry
FastCallBesideManifestAndCache ==
    /\ xret.fast
    /\ xret.path = "fast"
    /\ xret.schemas.keys # <<>>
    /\ xret.had.exists
    /\ DOMAIN cache # {}

\* C14: a call with fast_mode = true starts no compilation, leaves the
\* manifest and the cache directory as they are, takes nothing from them,
\* and returns exactly the schemas inferred from the SQL files
C14_FastModeOnlyInfersFromSql ==
    [][Called /\ xret'.fast =>
          /\ xret'.path = "fast"
          /\ xret'.compiled = "none"
          /\ project' = project
          /\ cache' = cache
          /\ \E rglob_order \in SetOrders :
                xret'.schemas = _extract_from_sql_files(project.sql, rglob_order)]_vars

----------------------------------------------------------------------------
(* Claims about the compilation step *)

\* the call waits for a child process
Waiting == proc.pc \in {"version", "compile"}

\* the child the call waits for
Child == IF proc.pc = "version" THEN dbt.version ELSE dbt.compile

\* what the diagnostic output tells about the failure
ProfileDiagnostics == {"Could not find profile named 'dev' in profiles.yml"}
ConnectivityDiagnostics == {"Database Error: Connection refused"}

\* the words of a message that name each category
NamesProfile(msg) == \E i \in 1..Len(msg) : Contains(msg[i], "profiles.yml is configured")
NamesConnectivity(msg) == \E i \in 1..Len(msg) : Contains(msg[i], "connection failed")

\* C15: whenever the compilation step waits for a child process, a timeout
\* is armed, so it never waits for a child that never exits without one;
\* after the timeout it has raised the timeout error; after a non-zero exit
\* of dbt compile its error names the category the diagnostic output shows
C15_CompilationIsBounded ==
    /\ Waiting => proc.timeout.armed
    /\ ~(Waiting /\ Child.takes = Never /\ ~proc.timeout.armed)
    /\ proc.event = "timed out" =>
          ~proc.res.ok /\ Contains(proc.res.exc.msg[1], "timed out")
    /\ proc.event = "compile failed" /\ dbt.compile.stderr \in ProfileDiagnostics =>
          ~proc.res.ok /\ NamesProfile(proc.res.exc.msg)
    /\ proc.event = "compile failed" /\ dbt.compile.stderr \in ConnectivityDiagnostics =>
          ~proc.res.ok /\ NamesConnectivity(proc.res.exc.msg)

----------------------------------------------------------------------------
(* Claims about the loaders *)

\* a model node of a manifest whose columns can all be read
WellFormedNode(node) ==
    /\ node.resource_type = "model"
    /\ node.columns.mapping
    /\ \A i \in 1..Len(node.columns.items) : node.columns.items[i].info.mapping

\* the name a node's schema is stored under
NodeKey(node) == IF node.alias # None THEN node.alias ELSE node.name

\* the loader returned a mapping that has the key k
ReturnedKey(k) == returned.res.ok /\ k \in Range(returned.res.val.keys)

\* the manifest loader returned the schema of every well-formed model node
WellFormedNodesLoaded ==
    given.kind = "manifest" /\ given.doc.json =>
        \A i \in 1..Len(given.doc.nodes) :
            WellFormedNode(given.doc.nodes[i]) => ReturnedKey(NodeKey(given.doc.nodes[i]))

\* SQL inference returned the schema of every file that has a select
ParseableFilesLoaded ==
    given.kind = "sql" =>
        \A f \in DOMAIN given.sql :
            given.sql[f] \notin {NoSelect, Undecodable} => ReturnedKey(f)

\* the target loader returned every column entry that has a name
NamedColumnsLoaded ==
    given.kind = "yaml" =>
        \A t \in DOMAIN given.doc.tables : \A i \in 1..Len(given.doc.tables[t]) :
            given.doc.tables[t][i].has_name =>
                /\ ReturnedKey(t)
                /\ given.doc.tables[t][i].name \in Range(returned.res.val.val[t].columns.keys)

\* C16: a manifest node, a SQL file or a column entry that cannot be read is
\* skipped alone: the loader still returns every well-formed model and
\* column of its input
C16_MalformedEntrySkippedAlone ==
    returned.applied =>
        WellFormedNodesLoaded /\ ParseableFilesLoaded /\ NamedColumnsLoaded

\* the names of a columns list
ColumnNames(columns) == [i \in 1..Len(columns) |-> columns[i].name]

\* a name is lower case
IsLowerCase(name) == \A i \in 1..Len(name) : ~IsUpper(CharAt(name, i))

\* no name occurs twice in names
NoDuplicates(names) == \A i, j \in 1..Len(names) : i # j => names[i] # names[j]

\* C17: in every schema the manifest loader or SQL inference returns, each
\* column name is non-empty and lower case and no two columns share a name
C17_ColumnNamesNormalizedAndUnique ==
    returned.applied /\ given.kind \in {"manifest", "sql"} /\ returned.res.ok =>
        \A k \in Range(returned.res.val.keys) :
            /\ \A i \in 1..Len(returned.res.val.val[k].columns) :
                  /\ returned.res.val.val[k].columns[i].name # ""
                  /\ IsLowerCase(returned.res.val.val[k].columns[i].name)
            /\ NoDuplicates(ColumnNames(returned.res.val.val[k].columns))

----------------------------------------------------------------------------
(* Claims about the serialized form of an issue *)

\* an issue without column came back from its serialized form
RoundTripWithoutColumn ==
    /\ returned.applied
    /\ returned.stage = "issue"
    /\ given.column = None
    /\ given.severity = SeverityINFO
    /\ returned.data.severity = "info"

\* C18: from_dict of the to_dict of an issue is an issue with the same
\* severity, table, column, message, category and suggested_fix
C18_RoundTripReproducesIssue ==
    returned.applied /\ returned.stage = "issue" =>
        /\ returned.issue.ok
        /\ \A f \in {"severity", "table", "column", "message", "category", "suggested_fix"} :
              returned.issue.val[f] = given[f]


----------------------------------------------------------------------------
(* Claims about the table name of a model class *)

\* the words in lower case, joined by underscores
RECURSIVE JoinLower(_, _)
JoinLower(words, i) ==
    IF i > Len(words) THEN ""
    ELSE IF i = Len(words) THEN StrLower(words[i])
    ELSE StrLower(words[i]) \o "_" \o JoinLower(words, i + 1)

\* the last word ends in s, or is the word Data after another word
EndsPlural(words) ==
    \/ CharAt(words[Len(words)], Len(words[Len(words)])) = "s"
    \/ Len(words) >= 2 /\ words[Len(words)] = "Data"

\* the table of a class by its name: lower case, underscores, plural
TableOfWords(words) ==
    IF EndsPlural(words) THEN JoinLower(words, 1) ELSE JoinLower(words, 1) \o "s"

\* the name has Base or Abstract in it
NamedAsBase(words) ==
    \/ Contains(JoinWords(words, 1), "Base")
    \/ Contains(JoinWords(words, 1), "Abstract")

\* the class was skipped: _analyze_model returned None
Skipped == returned.schema_info.ok /\ returned.schema_info.val = NoSchemaInfo

\* the class name alone decides: skipped when it has Base or Abstract in
\* it, else mapped to the table of its name
NameDecides ==
    IF NamedAsBase(given.words) THEN Skipped
    ELSE /\ returned.table_name = TableOfWords(given.words)
         /\ returned.schema_info.ok =>
               returned.schema_info.val.table_name = TableOfWords(given.words)

\* C21 as stated: every model class with Base or Abstract in its name is
\* skipped, every other class maps to the table of its name
C21_TableNameFromClassName ==
    returned.applied => NameDecides

\* a class named UserData without Config.table_name went to user_data
UserDataKeptItsName ==
    /\ returned.applied
    /\ given.words = <<"User", "Data">>
    /\ given.config_table_name = None
    /\ given.hints_resolve
    /\ returned.schema_info.ok
    /\ returned.schema_info.val.table_name = "user_data"

\* C21: a class with Config.table_name maps to that name whatever the class
\* is called, and is skipped when that name is empty; a class without it is
\* skipped when its name has Base or Abstract in it and maps to the table
\* of its name otherwise
C21_TableNameFromConfigOrClassName ==
    returned.applied =>
        IF given.config_table_name = None THEN NameDecides
        ELSE /\ returned.table_name = given.config_table_name
             /\ Skipped <=> given.config_table_name = ""
             /\ returned.schema_info.ok /\ ~Skipped =>
                   returned.schema_info.val.table_name = given.config_table_name


----------------------------------------------------------------------------
(* Claims about the columns of a SQL text *)

\* the position after the first needle at or after i, after the end of the
\* text when there is none
After(s, needle, i) ==
    IF FindFrom(s, needle, i) = 0 THEN Len(s) + 1
    ELSE FindFrom(s, needle, i) + Len(needle)

\* a placeholder or a comment opens at j: a placeholder runs from {{ to the
\* next }}, a line comment from -- to the end of its line, a block comment
\* from /* to the next */
Opens(s, j) ==
    \/ StartsAt(s, j, "{{") /\ FindFrom(s, "}}", j + 2) # 0
    \/ StartsAt(s, j, "--")
    \/ StartsAt(s, j, "/*") /\ FindFrom(s, "*/", j + 2) # 0

\* where the text goes on after the placeholder or comment that opens at j;
\* the newline that ends a line comment stays
Closes(s, j) ==
    IF StartsAt(s, j, "{{") THEN After(s, "}}", j + 2)
    ELSE IF StartsAt(s, j, "--")
    THEN (IF FindFrom(s, "\n", j + 2) = 0 THEN Len(s) + 1
          ELSE FindFrom(s, "\n", j + 2))
    ELSE After(s, "*/", j + 2)

\* the text without its placeholders and comments, from position i on
RECURSIVE WithoutPlaceholdersAndComments(_, _)
WithoutPlaceholdersAndComments(s, i) ==
    IF FirstOf({j \in i..Len(s) : Opens(s, j)}) = 0 THEN SubSeq(s, i, Len(s))
    ELSE SubSeq(s, i, FirstOf({j \in i..Len(s) : Opens(s, j)}) - 1)
            \o WithoutPlaceholdersAndComments(s,
                  Closes(s, FirstOf({j \in i..Len(s) : Opens(s, j)})))

\* the columns of the projection of the last match, none without a match
ColumnsOfLast(select_patterns) ==
    IF select_patterns = <<>> THEN <<>>
    ELSE ParsedColumns(_split_columns(Strip(select_patterns[Len(select_patterns)])), 1)

\* the columns of the last select ... from match of a text
ColumnsOfLastIn(text) ==
    IF text = "" THEN <<>> ELSE ColumnsOfLast(SelectPatterns(text, 1))

\* a line comment ends the text
EndsInLineComment(s) ==
    \E i \in 1..Len(s) : StartsAt(s, i, "--") /\ FindFrom(s, "\n", i) = 0

\* C22: the columns extracted from a text are those of the projection of
\* the last select ... from match in the text without its placeholders,
\* line comments and block comments, and there are none when nothing
\* matches
C22_ColumnsOfLastSelectInCleanedText ==
    returned.applied =>
        returned.columns =
            ColumnsOfLastIn(WithoutPlaceholdersAndComments(given, 1))

\* the same for the texts whose line comments all end in a newline
ColumnsOfLastSelectUnlessCommentEndsText ==
    returned.applied /\ ~EndsInLineComment(given) =>
        returned.columns =
            ColumnsOfLastIn(WithoutPlaceholdersAndComments(given, 1))


----------------------------------------------------------------------------
(* Claims about the split of a select clause *)

\* the parentheses opened and not closed before position i
DepthAt(s, i) ==
    Cardinality({j \in 1..(i - 1) : CharAt(s, j) = "("})
        - Cardinality({j \in 1..(i - 1) : CharAt(s, j) = ")"})

\* the commas at depth zero
TopLevelCommas(s) == {i \in 1..Len(s) : CharAt(s, i) = "," /\ DepthAt(s, i) = 0}

\* the first top-level comma after position b, the end of the clause when
\* there is none
NextCut(s, b) ==
    IF \E c \in TopLevelCommas(s) : c > b
    THEN CHOOSE c \in TopLevelCommas(s) :
            c > b /\ \A d \in TopLevelCommas(s) : d > b => c <= d
    ELSE Len(s) + 1

\* the pieces between the top-level commas after position b, in order,
\* stripped, without the empty ones
RECURSIVE PiecesAfter(_, _)
PiecesAfter(s, b) ==
    IF b > Len(s) THEN <<>>
    ELSE (IF Strip(SubSeq(s, b + 1, NextCut(s, b) - 1)) = "" THEN <<>>
          ELSE <<Strip(SubSeq(s, b + 1, NextCut(s, b) - 1))>>)
         \o PiecesAfter(s, NextCut(s, b))

\* a clause with a comma inside parentheses and one outside was split
SplitBesideParenthesizedComma ==
    /\ returned.applied
    /\ given = "(,),a"
    /\ returned.column_parts = <<"(,)", "a">>

\* C23: the fragments of _split_columns are the pieces of the clause between
\* its commas at parenthesis depth zero, in their order, stripped, without
\* the empty and the whitespace-only ones
C23_SplitAtTopLevelCommasOnly ==
    returned.applied => returned.column_parts = PiecesAfter(given, 0)


----------------------------------------------------------------------------
(* Claims about one column of a select clause *)

\* the end of the word that starts at i
RECURSIVE WordEnd(_, _)
WordEnd(s, i) ==
    IF i + 1 <= Len(s) /\ IsWord(CharAt(s, i + 1)) THEN WordEnd(s, i + 1) ELSE i

\* the positions where a word of s starts
WordStarts(s) ==
    {i \in 1..Len(s) : IsWord(CharAt(s, i)) /\ (i = 1 \/ ~IsWord(CharAt(s, i - 1)))}

\* the words of s, in lower case
WordsOf(s) == {StrLower(SubSeq(s, i, WordEnd(s, i))) : i \in WordStarts(s)}

\* the functions s calls, in lower case: the words before a parenthesis
CallsOf(s) ==
    {StrLower(SubSeq(s, i, WordEnd(s, i))) :
        i \in {j \in WordStarts(s) : StartsAt(s, SpaceRunEnd(s, WordEnd(s, j) + 1), "(")}}

\* s is one identifier
IsIdentifier(s) == s # "" /\ \A i \in 1..Len(s) : IsWord(CharAt(s, i))

\* rule (a): the alias after AS, parts being the tokens of the text
HasAsAlias(parts) ==
    /\ Len(parts) >= 3
    /\ StrLower(parts[Len(parts) - 1]) = "as"
    /\ IsIdentifier(parts[Len(parts)])

\* rule (b): the text ends in table.column
EndsInQualifiedName(s) ==
    \E i \in 2..(Len(s) - 1) :
        /\ CharAt(s, i) = "."
        /\ IsWord(CharAt(s, i - 1))
        /\ IsIdentifier(SubSeq(s, i + 1, Len(s)))

\* rule (d): several tokens, no word of a CASE expression among the words
\* of the text, no call in the last token
LastTokenNames(s, parts) ==
    /\ Len(parts) > 1
    /\ WordsOf(s) \cap {"case", "when", "then", "else", "end"} = {}
    /\ ~Contains(parts[Len(parts)], "(")

\* the name by the first applicable rule of (a) to (e)
NameByRules(s, parts) ==
    IF HasAsAlias(parts) THEN StrLower(parts[Len(parts)])
    ELSE IF EndsInQualifiedName(s)
    THEN StrLower(SubSeq(s, WordRunStart(s, Len(s)), Len(s)))
    ELSE IF IsIdentifier(s) THEN StrLower(s)
    ELSE IF LastTokenNames(s, parts) THEN StrLower(parts[Len(parts)])
    ELSE "computed_column"

\* C24: the name of a parsed column is the one the first applicable rule
\* gives: the alias after AS, the column of a trailing table.column, the
\* bare identifier, the last token of an expression that has several
\* tokens, no CASE, WHEN, THEN, ELSE or END keyword among its words and no
\* call in its last token, else computed_column; always in lower case
C24_NameByFirstApplicableRule ==
    returned.applied =>
        returned.column_info.name = NameByRules(given, SplitWords(given, 1))

\* the type by the first applicable rule: the function called, the type
\* keyword among the words, else the name
TypeByRules(s) ==
    IF CallsOf(s) \cap {"count", "sum", "row_number"} # {} THEN "integer"
    ELSE IF "avg" \in CallsOf(s) THEN "float"
    ELSE IF CallsOf(s) \cap {"concat", "upper", "lower", "trim"} # {} THEN "varchar"
    ELSE IF WordsOf(s) \cap {"timestamp", "current_timestamp"} # {} THEN "timestamp"
    ELSE IF "date" \in WordsOf(s) THEN "date"
    ELSE IF WordsOf(s) \cap {"true", "false", "boolean"} # {} THEN "boolean"
    ELSE TypeByPattern(StrLower(s))

\* C25: the type of a parsed column is the one the first matching rule
\* gives: integer for a call of COUNT, SUM or ROW_NUMBER, float for AVG,
\* varchar for CONCAT, UPPER, LOWER or TRIM, timestamp for a TIMESTAMP or
\* CURRENT_TIMESTAMP token, date for a DATE token, boolean for a boolean
\* literal or keyword, else the type the name rules give; a bare identifier
\* that calls nothing and has no such token gets the type of its name
C25_TypeByFirstMatchingRule ==
    returned.applied => returned.column_info.type = TypeByRules(given)


----------------------------------------------------------------------------
(* Claims about typo suggestions *)

\* a and b, in lower case, share their first n or their last n characters,
\* the shorter of the two given whole when it has fewer than n
SharePrefixOrSuffix(a, b, n) ==
    \/ StartsWith(a, Prefix(b, n))
    \/ StartsWith(b, Prefix(a, n))
    \/ EndsWith(a, Suffix(b, n))
    \/ EndsWith(b, Suffix(a, n))

\* the candidate is close to the target: lengths at most 2 apart and n
\* characters shared at either end
CloseTo(target, candidate, n) ==
    /\ Abs(Len(target) - Len(candidate)) <= 2
    /\ SharePrefixOrSuffix(Lower(Chars(target)), Lower(Chars(candidate)), n)

\* the candidates close to the target, in their order, from position i on
RECURSIVE CloseCandidates(_, _, _, _)
CloseCandidates(target, candidates, n, i) ==
    IF i > Len(candidates) THEN <<>>
    ELSE IF CloseTo(target, candidates[i], n)
    THEN <<candidates[i]>> \o CloseCandidates(target, candidates, n, i + 1)
    ELSE CloseCandidates(target, candidates, n, i + 1)

\* the suggestion lists the first three of the close names, the fixed text
\* when there is none
SuggestsCloseNames(n, otherwise) ==
    /\ returned.similar = Prefix(CloseCandidates(given.target, given.candidates, n, 1), 3)
    /\ returned.suggestion =
          IF CloseCandidates(given.target, given.candidates, n, 1) = <<>>
          THEN <<otherwise>>
          ELSE <<"Did you mean">> \o returned.similar

\* the suggestions for missing tables
TablesSuggestCloseNames ==
    returned.applied /\ returned.of = "table" =>
        SuggestsCloseNames(3, "Create this table in your DBT models")

\* C26: the suggestion for a missing table lists the first three source
\* tables whose length is at most 2 from the missing name's and that share
\* 3 characters with it at either end; the suggestion for a missing
\* required column lists the source columns found the same way with 2
\* characters; without such a name the suggestion is the fixed text
C26_SuggestionsListCloseNames ==
    /\ TablesSuggestCloseNames
    /\ returned.applied /\ returned.of = "column" =>
          SuggestsCloseNames(2, "Add this column to your DBT model")


----------------------------------------------------------------------------
(* Claims about the calls on one validator *)

\* this step is the second call on the validator, the files being as they
\* were during the first
SecondCallOnSameFiles == calls = 1 /\ ~dirty /\ calls' = 2

\* C27: a call of validate_contracts returns only the issues it found: the
\* second call on one validator whose files did not change returns the
\* issue list the first call returned
C27_EachCallReturnsItsOwnIssues ==
    [][SecondCallOnSameFiles => issues' = issues]_vars


----------------------------------------------------------------------------
(* Claims about the calls on one FastAPI extractor *)

\* the schemas of the qualifying model classes of the module config names:
\* what an extractor that was never called before returns for it
SchemasOfModule(config) == FastAPI_extract_schema(config, modules, EmptyDict).ret.val

\* C28: the mapping an extract_schema call returns holds the schemas of the
\* qualifying model classes of the module named in its config and no other:
\* nothing of an earlier call on the same extractor is in it
C28_ReturnsOnlySchemasOfNamedModule ==
    fret.called /\ fret.ret.ok =>
        fret.ret.val.val = SchemasOfModule(fret.config).val

----------------------------------------------------------------------------
(* C29: a target without tables *)

\* the document is a mapping that declares no table
DeclaresNoTables(doc) == doc.kind = "map" /\ DOMAIN doc.tables = {}

\* validate_contracts was called on a target that declares no tables
CalledWithoutTables ==
    /\ returned.applied
    /\ returned.by = "validate_contracts"
    /\ DeclaresNoTables(given.fastapi_yaml)

\* the call returned True after appending the one WARNING of the early
\* return to self.issues, whatever the source document is
OneWarningAndSuccess ==
    /\ ~returned.did.raised
    /\ returned.did.success
    /\ returned.did.path = "no_tables"
    /\ returned.did.issues = Append(given.issues, NothingToValidateIssue)
    /\ NothingToValidateIssue.severity = SeverityWARNING

\* validate_for_cicd, called by main or by a program, got to validate_contracts
ReachedValidator ==
    /\ returned.applied
    /\ returned.by \in {"main", "validate_for_cicd"}
    /\ returned.by = "validate_for_cicd" => returned.did.ok
    /\ returned.did.validated.path # "none"

----------------------------------------------------------------------------
(* C30: the exit status of the validate command *)

\* the validate command ran validate_for_cicd, which returned a result
CommandGotResult ==
    /\ returned.applied
    /\ returned.by = "main"
    /\ ~returned.did.uncaught

\* C30: whenever validate_for_cicd reports success = false, the path where
\* validation raised and the result carries no issue included, the validate
\* command ends with a non-zero exit status; it ends with status zero only
\* when the result is successful.
C30_FailureExitsNonZero ==
    CommandGotResult =>
        (returned.did.status = 0 <=> returned.did.result.success)

\* the validate command ends with a non-zero status whenever its result
\* carries an issue of severity error
ErrorIssueExitsNonZero ==
    CommandGotResult
        /\ (\E i \in 1..Len(returned.did.result.issues) :
               returned.did.result.issues[i].severity = "error")
        /\ given.args.fail_on = "error"
    => returned.did.status = 1

====
